---------------------------- MODULE Spec2Model ----------------------------
(***************************************************************************)
(* A model of the NFS lock manager core of usr/src/uts/common/klm:         *)
(* nlm_impl.c (sysid allocator, host registry, garbage collector, reclaim  *)
(* worker, client sleeping locks) and the handlers of nlm_service.c that   *)
(* drive them.                                                             *)
(*                                                                         *)
(* Pointers are modelled as record indexes, NULL as 0.  A critical section *)
(* (the code between mutex_enter and mutex_exit of one lock) is one step;  *)
(* code that runs with no lock held is a step of its own, so that every    *)
(* interleaving the locks allow is explored.                               *)
(***************************************************************************)
EXTENDS Integers, Sequences, FiniteSets, TLC

(***************************************************************************)
(* Bounds of the model.                                                    *)
(***************************************************************************)
\* Largest sysid (0x3FFF in the kernel; scaled down).
LM_SYSID_MAX == 4
\* Host records the kmem cache can hand out at the same time.
MaxHostRecs == 2
\* The clock (lbolt) runs from 0 to MaxTime.
MaxTime == 1
\* SEC_TO_TICK(g->cn_idle_tmo), in clock ticks.
IdlePeriod == 1
\* Notifications are taken for hosts with at most this many references.
MaxRefs == 2
\* ... that have fewer reclaimer threads than this.
MaxWorkers == 2
\* Vnodes the server exports; the last one lies on a read only file system.
MaxVnodes == 3
\* Hosts whose vholds are followed.
MaxVhHosts == 2
\* The clock ticks the grace period lasts from the start of the service.
GracePeriod == 1
\* The threads that call the local status monitor at the same time.
MaxNsmThreads == 3
\* The threads whose lock operations are followed.
MaxLockThreads == 2
\* Sleeping requests a vhold holds at the same time.
MaxSlreqs == 2
\* NSM state numbers a caller of nlm_host_notify_server() passes
MaxNwState == 2
\* The clock of the idle list's order runs from 0 to MaxLruTime.
MaxLruTime == 2
\* nlm_vp_active() queries of one behaviour.
MaxVpQueries == 2

(***************************************************************************)
(* Program constants.                                                      *)
(***************************************************************************)
LM_SYSID == 1
LM_NOSYSID == -1
NULL == 0
\* The address of the list head's tqh_first, as a tqe_prev/tqh_last value.
HEAD == 0

NLM_BMAP_NITEMS == LM_SYSID_MAX + 1

VARIABLES
    \* ---- sysid allocator (process wide, under lm_lck)
    nlm_sysid_bmap,     \* the set of bits that are set
    nlm_sysid_nidx,     \* the rotating cursor
    \* ---- an allocator client used to exercise the allocator alone
    sy_out,             \* sysid -> number of allocations not yet freed
    sy_ret,             \* the value the last nlm_sysid_alloc returned
    \* ---- client sleeping locks (under g->lock)
    nlm_slocks,         \* g->nlm_slocks: the entries, head to tail
    nsl,                \* entry -> [live, state, host, lock]
    sl_pc,              \* entry -> where the thread that owns it stands
    sl_cvres,           \* entry -> what cv_timedwait_sig returned to its owner
    sl_err,             \* entry -> what nlm_slock_wait returned
    sl_read,            \* entry -> what had happened when nlm_slock_wait examined
                        \* the entry: [state, granted, cancelled]
    sl_ngrant,          \* entry -> successful nlm_slock_grant calls on it
    sl_cancelled,       \* entry -> nlm_host_cancel_slocks has marked it
    sl_grant,           \* the last nlm_slock_grant call: the entries equal to its
                        \* arguments, those of them BLOCKED, and what it returned
    \* ---- host registry (struct nlm_globals, under g->lock) and hosts
    g,                  \* [run_status, hosts_tree, hosts_hash, idle_first,
                        \*  idle_last, gc_thread]
    nh,                 \* host record -> struct nlm_host
    now,                \* ddi_get_lbolt()
    flk,                \* the local lock engine: the sysids that own server
                        \* side locks or shares (remote) and client side
                        \* locks (client)
    pc,                 \* handler thread -> where it stands
    loc,                \* handler thread -> its local variables
    gc,                 \* the GC thread: [pc, host, now, has_locks]
    st,                 \* the thread in nlm_svc_stopping(): [pc, host, busy]
    recl,               \* host record -> its nlm_reclaimer threads: those that
                        \* have not yet cleared NLM_NH_RECLAIM (run) and those
                        \* that have and are about to release the host (rel)
    crashed,            \* the kernel has panicked or touched freed memory
    \* ---- vnodes and vholds (struct nlm_vhold, under the host's nh_lock)
    v_count,            \* vnode -> the holds NLM has taken and not yet dropped
    vh,                 \* host -> vnode -> [live, nv_refcnt]: nh_vholds_by_vp
    vlk,                \* the <<host, vnode>> with a lock or share of the host
    vpc,                \* handler thread -> where it stands
    vloc,               \* handler thread -> [host, vp, created, second, holds]:
                        \* whether it created the vhold, whether it ran the
                        \* second critical section, the holds it has taken
                        \* less those it has dropped
    \* ---- the service handlers of nlm_service.c and what they act on
    hpc,                \* handler thread -> where it stands in its handler
    harg,               \* handler thread -> the request it serves
    hloc,               \* handler thread -> its local variables and what it
                        \* has sent (ncb GRANTED call backs, the last with cb),
                        \* whether the engine has interrupted its F_SETLKW
                        \* (intr) and whether a CANCEL has unregistered its
                        \* sleeping request while it slept (cancelled)
    lk_host,            \* host -> [known, flags, state, mon_fail]: whether the
                        \* registry has it, NLM_NH_MONITORED, nh_state, and
                        \* whether the last MON call for it failed
    slreqs,             \* the server sleeping requests: <<host, vnode, type>>
    vshr,               \* the <<host, vnode>> with a share reservation
    loclk,              \* the vnodes a local process has locked
    \* ---- the handle of the local status monitor (struct nlm_nsm)
    nsm_sem,            \* the count of ns_sem
    nsm_th,             \* thread -> [pc, proc]: where it stands in which
                        \* nlm_nsm_* function
    \* ---- the locks: lm_lck, g->lock and the nh_lock of one host
    lo_own,             \* lock -> the thread that holds it (0: free)
    lo_th,              \* thread -> [fn, i]: the function it runs and the
                        \* operation of the function it is about to do
    \* ---- monitoring of one host by the local status monitor
    mo_flags,           \* nh_flags of the host
    mo_sm,              \* whether statd holds a MON registration for the host
    mo_th,              \* thread -> [pc, tmp]: where it stands, and the
                        \* nh_flags value it has loaded
    \* ---- the entry of the protocol handlers
    ent,                \* thread -> [pc, op, msg, down, nosysid, status, rpc]:
                        \* the request it serves, whether it is the _MSG
                        \* variant, whether run_status was not UP and whether
                        \* no sysid was left when it looked for the host, the
                        \* answer, and what nlm_host_get_rpc() did with a NULL
                        \* host
    en_foreign,         \* the sysids of the hosts whose records are not
                        \* followed
    \* ---- the sleeping requests of one vhold, and CANCEL
    ca_slreqs,          \* nv_slreqs: the struct flock64 of the requests, head
                        \* to tail
    ca_res,             \* the nlm_do_cancel() that has just returned: its
                        \* request, the list it found, the error of F_UNLCK
                        \* and the answer
    \* ---- nlm_host_notify_server() and the vhold collector
    nw,                 \* the thread in nlm_host_notify_server(): [pc, state,
                        \* old, nvp, freed]: the state it was given, nh_state
                        \* at its entry, the vhold it is at, and whether it
                        \* has used a vhold that was destroyed
    ngc,                \* the host the collector has taken from the idle
                        \* list and whose nh_lock it is about to take
    \* ---- nlm_block() and nlm_slreq_register() of several handlers
    sq                  \* thread -> [pc, flp, ret]: where it is in nlm_block(),
                        \* the struct flock64 of its request and what
                        \* nlm_slreq_register() returned to it
VARIABLES
    \* ---- nlm_vp_active()
    vpa                 \* [pc, vp, host, old, n, freed]: the query under way,
                        \* the vhold it found, the nv_refcnt it read, how
                        \* many queries there were, and whether one wrote to
                        \* a destroyed vhold
VARIABLES
    \* ---- nlm_svc_starting()
    sta                 \* [pc, error, ret, failed, nsm, nsm_fini]: where the
                        \* call is, its variable error, what it returned,
                        \* whether a step failed, whether g->nlm_nsm holds a
                        \* handle, and how often a handle was destroyed

sysidVars == <<nlm_sysid_bmap, nlm_sysid_nidx>>
syVars == <<sy_out, sy_ret>>
slockVars == <<nlm_slocks, nsl, sl_pc, sl_cvres, sl_err, sl_read, sl_ngrant,
               sl_cancelled, sl_grant>>

svcVars == <<st, recl>>
regVars == <<g, nh, now, flk, pc, loc, gc, svcVars, crashed>>

vhVars == <<v_count, vh, vlk, vpc, vloc>>
svVars == <<hpc, harg, hloc, lk_host, slreqs, vshr, loclk>>
srvVars == <<vhVars, svVars>>
nsmVars == <<nsm_sem, nsm_th>>
loVars == <<lo_own, lo_th>>
moVars == <<mo_flags, mo_sm, mo_th>>
\* The variables of the sections that stand on their own.
entVars == <<ent, en_foreign>>
caVars == <<ca_slreqs, ca_res>>
nwVars == <<nw, ngc>>
sqVars == <<sq>>
vpaVars == <<vpa>>
staVars == <<sta>>
ownVars == <<nsmVars, loVars, moVars, entVars, caVars, nwVars,
            sqVars,
            vpaVars,
            staVars>>

vars == <<sysidVars, syVars, slockVars, regVars, srvVars, ownVars>>

(***************************************************************************)
(* Sysid allocator.                                                        *)
(***************************************************************************)
\* bt_availbit(): the index of the lowest clear bit, -1 if every bit is set.
bt_availbit(bmap, nitems) ==
    IF \E i \in 0..(nitems - 1) : i \notin bmap
    THEN CHOOSE i \in 0..(nitems - 1) :
            /\ i \notin bmap
            /\ \A j \in 0..(nitems - 1) : j \notin bmap => i <= j
    ELSE -1

\* nlm_init(): the bitmap is zeroed, bit 0 reserved, the cursor set to 1.
SysidInitBmap == {0}
SysidInitNidx == 1

\* A faulty allocator: the cursor branch forgets to set the bit.
nlm_sysid_alloc_nobit(bmap, nidx) ==
    LET n == IF nidx > LM_SYSID_MAX THEN LM_SYSID ELSE nidx IN
    IF n \notin bmap
    THEN [bmap |-> bmap, nidx |-> n + 1, ret |-> n]
    ELSE LET id == bt_availbit(bmap, NLM_BMAP_NITEMS) IN
         IF id > 0
         THEN [bmap |-> bmap \cup {id}, nidx |-> id + 1, ret |-> id]
         ELSE [bmap |-> bmap, nidx |-> n, ret |-> LM_NOSYSID]

\* nlm_sysid_alloc(): the whole function runs under lm_lck as writer.
nlm_sysid_alloc(bmap, nidx) ==
    LET n == IF nidx > LM_SYSID_MAX THEN LM_SYSID ELSE nidx IN
    IF n \notin bmap
    THEN [bmap |-> bmap \cup {n}, nidx |-> n + 1, ret |-> n]
    ELSE LET id == bt_availbit(bmap, NLM_BMAP_NITEMS) IN
         IF id > 0
         THEN [bmap |-> bmap \cup {id}, nidx |-> id + 1, ret |-> id]
         ELSE [bmap |-> bmap, nidx |-> n, ret |-> LM_NOSYSID]

\* nlm_sysid_free(): clears the bit (the caller owns the sysid).
nlm_sysid_free(bmap, sysid) == bmap \ {sysid}

(***************************************************************************)
(* Client sleeping locks.                                                  *)
(***************************************************************************)
EINTR == 4
EIO == 5
ETIMEDOUT == 145
ENOENT == 2

NLM_SL_BLOCKED == "BLOCKED"
NLM_SL_GRANTED == "GRANTED"
NLM_SL_CANCELLED == "CANCELLED"

\* The entries: each is owned by the client thread that registers it.
Slocks == {1, 2}
\* The hosts (struct nlm_host pointers) the client locks against.
SlHosts == {1, 2}
\* The struct nlm4_lock values the client sends and the server grants:
\* svid, l_offset, l_len and the file handle (fh.n_len is Len(fh)).
SlLocks == {[svid |-> 1, l_offset |-> 0, l_len |-> 1, fh |-> <<1>>],
            [svid |-> 1, l_offset |-> 0, l_len |-> 1, fh |-> <<1, 2>>]}
NoLock == [svid |-> 0, l_offset |-> 0, l_len |-> 0, fh |-> <<>>]

\* memcmp(b1, b2, n) == 0
memcmp_eq(b1, b2, n) ==
    \A i \in 1..n : i <= Len(b1) /\ i <= Len(b2) /\ b1[i] = b2[i]

\* A faulty comparison: the file handle is left out.
SlockMatches_nofh(alock, e) ==
    /\ alock.svid = e.lock.svid
    /\ alock.l_offset = e.lock.l_offset
    /\ alock.l_len = e.lock.l_len

\* The comparison of nlm_slock_grant: svid, offset, length and file handle.
SlockMatches(alock, e) ==
    /\ alock.svid = e.lock.svid
    /\ alock.l_offset = e.lock.l_offset
    /\ alock.l_len = e.lock.l_len
    /\ Len(alock.fh) = Len(e.lock.fh)
    /\ memcmp_eq(alock.fh, e.lock.fh, Len(e.lock.fh))

\* The first entry of the list nlm_slock_grant stops at, NULL if none.
RECURSIVE SlockGrantFind(_, _, _, _)
SlockGrantFind(list, entries, hostp, alock) ==
    IF list = <<>> THEN NULL
    ELSE LET e == entries[Head(list)] IN
         IF e.state = NLM_SL_BLOCKED /\ e.host = hostp /\ SlockMatches(alock, e)
         THEN Head(list)
         ELSE SlockGrantFind(Tail(list), entries, hostp, alock)

\* A faulty grant: the entry's state is not examined.
RECURSIVE SlockGrantFindAnyState(_, _, _, _)
SlockGrantFindAnyState(list, entries, hostp, alock) ==
    IF list = <<>> THEN NULL
    ELSE LET e == entries[Head(list)] IN
         IF e.host = hostp /\ SlockMatches(alock, e)
         THEN Head(list)
         ELSE SlockGrantFindAnyState(Tail(list), entries, hostp, alock)

nlm_slock_grant_anystate(list, entries, hostp, alock) ==
    LET hit == SlockGrantFindAnyState(list, entries, hostp, alock) IN
    IF hit = NULL
    THEN [nsl |-> entries, hit |-> NULL, ret |-> ENOENT]
    ELSE [nsl |-> [entries EXCEPT ![hit].state = NLM_SL_GRANTED],
          hit |-> hit, ret |-> 0]

\* nlm_slock_grant(): the entries afterwards, the entry whose condition
\* variable was broadcast, and the return value.
nlm_slock_grant(list, entries, hostp, alock) ==
    LET hit == SlockGrantFind(list, entries, hostp, alock) IN
    IF hit = NULL
    THEN [nsl |-> entries, hit |-> NULL, ret |-> ENOENT]
    ELSE [nsl |-> [entries EXCEPT ![hit].state = NLM_SL_GRANTED],
          hit |-> hit, ret |-> 0]

\* The entries of the list that nlm_host_cancel_slocks marks and broadcasts.
SlockListSet(list) == {list[i] : i \in 1..Len(list)}

nlm_host_cancel_slocks(list, entries, hostp) ==
    {e \in SlockListSet(list) : entries[e].host = hostp}

\* A faulty wait: the late grant is not looked for after a timeout.
nlm_slock_wait_result_nolate(state, cv_res) ==
    IF state = NLM_SL_CANCELLED THEN EINTR
    ELSE IF cv_res <= 0
         THEN (IF cv_res < 0 THEN ETIMEDOUT ELSE EINTR)
         ELSE 0

\* A faulty wait: the cancellation is looked at only after the wake-up reason.
nlm_slock_wait_result_cancel_last(state, cv_res) ==
    IF cv_res <= 0
    THEN (IF state = NLM_SL_GRANTED THEN 0
          ELSE IF cv_res < 0 THEN ETIMEDOUT ELSE EINTR)
    ELSE IF state = NLM_SL_CANCELLED THEN EINTR ELSE 0

\* nlm_slock_wait() from the point where it holds g->lock again: the error
\* it returns for the state it finds and the wake-up reason cv_res.
nlm_slock_wait_result(state, cv_res) ==
    IF state = NLM_SL_CANCELLED THEN EINTR
    ELSE IF cv_res <= 0
         THEN (IF state = NLM_SL_GRANTED THEN 0
               ELSE IF cv_res < 0 THEN ETIMEDOUT ELSE EINTR)
         ELSE 0

\* The VERIFY of nlm_slock_wait: woken by a broadcast, or never slept, and
\* not cancelled, the entry must be granted.
nlm_slock_wait_verify(state, cv_res) ==
    (state # NLM_SL_CANCELLED /\ cv_res > 0) => state = NLM_SL_GRANTED

NotRead == [state |-> NLM_SL_BLOCKED, granted |-> FALSE, cancelled |-> FALSE,
            timeo0 |-> FALSE]
NoEntry == [live |-> FALSE, state |-> NLM_SL_BLOCKED, host |-> NULL, lock |-> NoLock]

SlockInit ==
    /\ nlm_slocks = <<>>
    /\ nsl = [e \in Slocks |-> NoEntry]
    /\ sl_pc = [e \in Slocks |-> "none"]
    /\ sl_cvres = [e \in Slocks |-> 1]
    /\ sl_err = [e \in Slocks |-> 0]
    /\ sl_read = [e \in Slocks |-> NotRead]
    /\ sl_ngrant = [e \in Slocks |-> 0]
    /\ sl_cancelled = [e \in Slocks |-> FALSE]
    /\ sl_grant = [matched |-> {}, blocked |-> {}, ret |-> ENOENT]

\* What has happened to entry e so far, for the record of its wait.
SlockSeen(e) ==
    [state |-> nsl[e].state, granted |-> sl_ngrant[e] > 0,
     cancelled |-> sl_cancelled[e], timeo0 |-> FALSE]

\* nlm_slock_register(): a new BLOCKED entry at the tail of the list.
SlockRegister(e, host, lock) ==
    /\ sl_pc[e] = "none"
    /\ nsl' = [nsl EXCEPT ![e] = [live |-> TRUE, state |-> NLM_SL_BLOCKED,
                                  host |-> host, lock |-> lock]]
    /\ nlm_slocks' = Append(nlm_slocks, e)
    /\ sl_pc' = [sl_pc EXCEPT ![e] = "registered"]
    /\ UNCHANGED <<sl_cvres, sl_err, sl_read, sl_ngrant, sl_cancelled, sl_grant>>

\* nlm_slock_wait() up to cv_timedwait_sig: the thread sleeps if the entry is
\* BLOCKED, and otherwise goes on with cv_res = 1 to the end of the function.
SlockWaitEnter(e) ==
    /\ sl_pc[e] = "registered"
    /\ IF nsl[e].state = NLM_SL_BLOCKED
       THEN /\ sl_pc' = [sl_pc EXCEPT ![e] = "sleeping"]
            /\ sl_cvres' = [sl_cvres EXCEPT ![e] = 1]
            /\ UNCHANGED <<sl_err, sl_read>>
       ELSE /\ sl_pc' = [sl_pc EXCEPT ![e] =
                  IF nlm_slock_wait_verify(nsl[e].state, 1) THEN "done" ELSE "panic"]
            /\ sl_cvres' = [sl_cvres EXCEPT ![e] = 1]
            /\ sl_err' = [sl_err EXCEPT ![e] = nlm_slock_wait_result(nsl[e].state, 1)]
            /\ sl_read' = [sl_read EXCEPT ![e] = SlockSeen(e)]
    /\ UNCHANGED <<nlm_slocks, nsl, sl_ngrant, sl_cancelled, sl_grant>>

\* A faulty wait with timeout 0: the expired wait is taken for a signal.
nlm_slock_wait_now_signal(state) ==
    nlm_slock_wait_result(state, IF state = NLM_SL_BLOCKED THEN 0 ELSE 1)

\* nlm_slock_wait() with timeo_secs == 0: timeo_ticks is the current lbolt,
\* and cv_timedwait_sig(), given a time that is not in the future, returns -1
\* at once with g->lock held.
nlm_slock_wait_now(state) ==
    nlm_slock_wait_result(state, IF state = NLM_SL_BLOCKED THEN -1 ELSE 1)

\* nlm_slock_wait(g, nslp, 0), the whole call.
SlockWaitNow(e) ==
    /\ sl_pc[e] = "registered"
    /\ LET cv_res == IF nsl[e].state = NLM_SL_BLOCKED THEN -1 ELSE 1 IN
        /\ sl_pc' = [sl_pc EXCEPT ![e] =
              IF nlm_slock_wait_verify(nsl[e].state, cv_res) THEN "done" ELSE "panic"]
        /\ sl_cvres' = [sl_cvres EXCEPT ![e] = cv_res]
    /\ sl_err' = [sl_err EXCEPT ![e] = nlm_slock_wait_now(nsl[e].state)]
    /\ sl_read' = [sl_read EXCEPT ![e] = [SlockSeen(e) EXCEPT !.timeo0 = TRUE]]
    /\ UNCHANGED <<nlm_slocks, nsl, sl_ngrant, sl_cancelled, sl_grant>>

\* cv_timedwait_sig() ends by timeout (-1) or by a signal (0); the thread has
\* yet to take g->lock again.
SlockWaitTimeout(e) ==
    /\ sl_pc[e] = "sleeping"
    /\ sl_pc' = [sl_pc EXCEPT ![e] = "woken"]
    /\ sl_cvres' = [sl_cvres EXCEPT ![e] = -1]
    /\ UNCHANGED <<nlm_slocks, nsl, sl_err, sl_read, sl_ngrant, sl_cancelled, sl_grant>>

SlockWaitSignal(e) ==
    /\ sl_pc[e] = "sleeping"
    /\ sl_pc' = [sl_pc EXCEPT ![e] = "woken"]
    /\ sl_cvres' = [sl_cvres EXCEPT ![e] = 0]
    /\ UNCHANGED <<nlm_slocks, nsl, sl_err, sl_read, sl_ngrant, sl_cancelled, sl_grant>>

\* nlm_slock_wait() after cv_timedwait_sig has returned with g->lock held.
SlockWaitFinish(e) ==
    /\ sl_pc[e] = "woken"
    /\ sl_pc' = [sl_pc EXCEPT ![e] =
          IF nlm_slock_wait_verify(nsl[e].state, sl_cvres[e]) THEN "done" ELSE "panic"]
    /\ sl_err' = [sl_err EXCEPT ![e] = nlm_slock_wait_result(nsl[e].state, sl_cvres[e])]
    /\ sl_read' = [sl_read EXCEPT ![e] = SlockSeen(e)]
    /\ UNCHANGED <<nlm_slocks, nsl, sl_cvres, sl_ngrant, sl_cancelled, sl_grant>>

\* cv_broadcast(&nslp->nsl_cond) on the entries of set: a sleeping owner
\* is woken with a positive cv_res.
SlockBroadcast(set) ==
    [e \in Slocks |-> IF e \in set /\ sl_pc[e] = "sleeping" THEN "woken" ELSE sl_pc[e]]

\* After ETIMEDOUT the caller resends its request and calls nlm_slock_wait
\* on the same entry again.
SlockWaitAgain(e) ==
    /\ sl_pc[e] = "done"
    /\ sl_err[e] = ETIMEDOUT
    /\ sl_pc' = [sl_pc EXCEPT ![e] = "registered"]
    /\ sl_cvres' = [sl_cvres EXCEPT ![e] = 1]
    /\ sl_err' = [sl_err EXCEPT ![e] = 0]
    /\ sl_read' = [sl_read EXCEPT ![e] = NotRead]
    /\ UNCHANGED <<nlm_slocks, nsl, sl_ngrant, sl_cancelled, sl_grant>>

\* nlm_slock_unregister(): the owner removes and frees its entry.
SlockUnregister(e) ==
    /\ sl_pc[e] = "done"
    /\ nlm_slocks' = SelectSeq(nlm_slocks, LAMBDA x : x # e)
    /\ nsl' = [nsl EXCEPT ![e] = NoEntry]
    /\ sl_pc' = [sl_pc EXCEPT ![e] = "none"]
    /\ sl_cvres' = [sl_cvres EXCEPT ![e] = 1]
    /\ sl_err' = [sl_err EXCEPT ![e] = 0]
    /\ sl_read' = [sl_read EXCEPT ![e] = NotRead]
    /\ sl_ngrant' = [sl_ngrant EXCEPT ![e] = 0]
    /\ sl_cancelled' = [sl_cancelled EXCEPT ![e] = FALSE]
    /\ UNCHANGED sl_grant

\* nlm_slock_grant(g, hostp, alock), as nlm_do_granted calls it.
SlockGrant(hostp, alock) ==
    LET r == nlm_slock_grant(nlm_slocks, nsl, hostp, alock) IN
    /\ nsl' = r.nsl
    /\ sl_pc' = SlockBroadcast(IF r.hit = NULL THEN {} ELSE {r.hit})
    /\ sl_ngrant' = IF r.hit = NULL THEN sl_ngrant
                    ELSE [sl_ngrant EXCEPT ![r.hit] = @ + 1]
    /\ sl_grant' = [ret |-> r.ret,
                    matched |-> {e \in Slocks :
                        nsl[e].live /\ nsl[e].host = hostp /\ nsl[e].lock = alock},
                    blocked |-> {e \in Slocks :
                        /\ nsl[e].live /\ nsl[e].host = hostp /\ nsl[e].lock = alock
                        /\ nsl[e].state = NLM_SL_BLOCKED}]
    /\ UNCHANGED <<nlm_slocks, sl_cvres, sl_err, sl_read, sl_cancelled>>

\* nlm_host_cancel_slocks(g, hostp).
SlockCancelHost(hostp) ==
    LET hit == nlm_host_cancel_slocks(nlm_slocks, nsl, hostp) IN
    /\ nsl' = [e \in Slocks |->
                IF e \in hit THEN [nsl[e] EXCEPT !.state = NLM_SL_CANCELLED]
                ELSE nsl[e]]
    /\ sl_pc' = SlockBroadcast(hit)
    /\ sl_cancelled' = [e \in Slocks |-> e \in hit \/ sl_cancelled[e]]
    /\ UNCHANGED <<nlm_slocks, sl_cvres, sl_err, sl_read, sl_ngrant, sl_grant>>

(***************************************************************************)
(* Host registry: comparison of hosts.                                     *)
(***************************************************************************)
AF_INET == 2

\* SIGN(x) as the macro computes it: ((x) < 0) - ((x) > 0).
SIGN(x) == (IF x < 0 THEN 1 ELSE 0) - (IF x > 0 THEN 1 ELSE 0)

\* memcmp(): the difference of the first pair of bytes that differ, else 0.
RECURSIVE memcmp(_, _)
memcmp(b1, b2) ==
    IF b1 = <<>> \/ b2 = <<>> THEN 0
    ELSE IF Head(b1) # Head(b2) THEN Head(b1) - Head(b2)
    ELSE memcmp(Tail(b1), Tail(b2))

\* strcmp() on the netids the service is bound to.
Netids == <<"tcp", "udp">>
NetidIndex(n) == CHOOSE i \in 1..Len(Netids) : Netids[i] = n
strcmp(a, b) == NetidIndex(a) - NetidIndex(b)

\* nlm_netbuf_addrs_cmp(): family first, then the address bytes; the port is
\* not looked at.
nlm_netbuf_addrs_cmp(nb1, nb2) ==
    IF nb1.family < nb2.family THEN -1
    ELSE IF nb1.family > nb2.family THEN 1
    ELSE SIGN(memcmp(nb1.addr, nb2.addr))

\* nlm_host_cmp(): the order of the hosts tree.
nlm_host_cmp(h1, h2) ==
    LET res == nlm_netbuf_addrs_cmp(h1.addr, h2.addr) IN
    IF res # 0 THEN res
    ELSE SIGN(strcmp(h1.netid, h2.netid))

(***************************************************************************)
(* Host registry: state.                                                   *)
(***************************************************************************)
NLM_ST_STARTING == "STARTING"
NLM_ST_UP == "UP"
NLM_ST_STOPPING == "STOPPING"
NLM_ST_DOWN == "DOWN"
NLM_NH_MONITORED == "MONITORED"
NLM_NH_RECLAIM == "RECLAIM"

HostRecs == 1..MaxHostRecs
Sysids == LM_SYSID..LM_SYSID_MAX

\* The (netid, caller address) pairs requests arrive with: the same peer from
\* two ports, and the same address over another transport.
Callers ==
    {[netid |-> "tcp", addr |-> [family |-> AF_INET, addr |-> <<10, 1>>, port |-> 1]],
     [netid |-> "tcp", addr |-> [family |-> AF_INET, addr |-> <<10, 1>>, port |-> 2]],
     [netid |-> "udp", addr |-> [family |-> AF_INET, addr |-> <<10, 1>>, port |-> 1]]}
NoAddr == [family |-> 0, addr |-> <<>>, port |-> 0]

\* The handler threads of the RPC service pool.
Procs == {"p1", "p2"}

\* A host record as the kmem cache constructor leaves it (bzero).
NoHost ==
    [live |-> FALSE, netid |-> "", addr |-> NoAddr, sysid |-> 0, refs |-> 0,
     idle_timeout |-> 0, flags |-> {}, next |-> NULL, prev |-> HEAD,
     vhold |-> FALSE, nv_refcnt |-> 0, state |-> 0]

NoLoc == [netid |-> "", addr |-> NoAddr, host |-> NULL, newhost |-> NULL,
          state |-> 0, refs |-> 0]

\* What the collector's last nlm_host_unmonitor() did: the host, its sysid,
\* whether statd was called and whether the call succeeded.
NoUnmon == [host |-> NULL, sysid |-> 0, called |-> FALSE, ok |-> FALSE]

RegInit ==
    /\ g = [run_status |-> NLM_ST_UP, hosts_tree |-> {},
            hosts_hash |-> [s \in Sysids |-> NULL],
            idle_first |-> NULL, idle_last |-> HEAD, gc_thread |-> TRUE]
    /\ nh = [h \in HostRecs |-> NoHost]
    /\ now = 0
    /\ flk = [remote |-> {}, client |-> {}]
    /\ pc = [p \in Procs |-> "idle"]
    /\ loc = [p \in Procs |-> NoLoc]
    /\ gc = [pc |-> "wait", host |-> NULL, now |-> 0, has_locks |-> FALSE,
             unmon |-> NoUnmon]
    /\ st = [pc |-> "up", host |-> NULL, busy |-> FALSE]
    /\ recl = [h \in HostRecs |-> [run |-> 0, rel |-> 0]]
    /\ crashed = FALSE

(***************************************************************************)
(* The idle hosts list, a TAILQ linked through nh_link.  R is the registry *)
(* [g, nh, ok]; a tqe_prev or tqh_last value is HEAD for the address of    *)
(* tqh_first and h for the address of host h's tqe_next.  ok turns FALSE   *)
(* when an operation reads or writes a record that was freed, or a VERIFY  *)
(* fails: the kernel's memory is corrupted or it has panicked.             *)
(***************************************************************************)
\* Host pointer h is dereferenced.
Deref(R, h) == [R EXCEPT !.ok = @ /\ R.nh[h].live]

\* *ptr = val
TqStore(R, ptr, val) ==
    IF ptr = HEAD
    THEN [R EXCEPT !.g.idle_first = val]
    ELSE [Deref(R, ptr) EXCEPT !.nh[ptr].next = val]

TAILQ_INSERT_TAIL(R, e) ==
    LET R1 == [R EXCEPT !.nh[e].next = NULL, !.nh[e].prev = R.g.idle_last]
        R2 == TqStore(R1, R1.g.idle_last, e)
    IN  [R2 EXCEPT !.g.idle_last = e]

TAILQ_REMOVE(R, e) ==
    LET R1 == IF R.nh[e].next # NULL
              THEN [Deref(R, R.nh[e].next)
                      EXCEPT !.nh[R.nh[e].next].prev = R.nh[e].prev]
              ELSE [R EXCEPT !.g.idle_last = R.nh[e].prev]
    IN  TqStore(R1, R1.nh[e].prev, R1.nh[e].next)

\* The hosts met walking the list from tqh_first, at most n of them.
RECURSIVE IdleWalk(_, _, _)
IdleWalk(R, h, n) ==
    IF h = NULL \/ n = 0 THEN <<>>
    ELSE <<h>> \o IdleWalk(R, R.nh[h].next, n - 1)

IdleList(R) == IdleWalk(R, R.g.idle_first, MaxHostRecs + 1)
IdleCount(R, h) == Cardinality({i \in 1..Len(IdleList(R)) : IdleList(R)[i] = h})

(***************************************************************************)
(* Host registry: lookup, creation, release.                               *)
(***************************************************************************)
\* avl_find(&g->nlm_hosts_tree, &key, &pos): the host equal to key, or NULL.
avl_find(R, key) ==
    IF \E h \in R.g.hosts_tree : nlm_host_cmp(key, R.nh[h]) = 0
    THEN CHOOSE h \in R.g.hosts_tree : nlm_host_cmp(key, R.nh[h]) = 0
    ELSE NULL

\* A found host is taken off the idle list if it was unused, and referenced.
HostHold(R, h) ==
    LET R0 == Deref(R, h)
        R1 == IF R0.nh[h].refs = 0 THEN TAILQ_REMOVE(R0, h) ELSE R0
    IN  [R1 EXCEPT !.nh[h].refs = @ + 1]

nlm_host_find_locked(R, netid, addr) ==
    LET h == avl_find(R, [netid |-> netid, addr |-> addr]) IN
    IF h # NULL THEN [R |-> HostHold(R, h), host |-> h]
    ELSE [R |-> R, host |-> NULL]

nlm_host_find(R, netid, addr) ==
    IF R.g.run_status # NLM_ST_UP THEN [R |-> R, host |-> NULL]
    ELSE nlm_host_find_locked(R, netid, addr)

\* mod_hash_find(g->nlm_hosts_hash, sysid, &hostp)
mod_hash_find(R, sysid) ==
    IF sysid \in DOMAIN R.g.hosts_hash THEN R.g.hosts_hash[sysid] ELSE NULL

nlm_host_find_by_sysid(R, sysid) ==
    IF R.g.run_status # NLM_ST_UP THEN [R |-> R, host |-> NULL]
    ELSE LET h == mod_hash_find(R, sysid) IN
         IF h = NULL THEN [R |-> R, host |-> NULL]
         ELSE [R |-> HostHold(R, h), host |-> h]

\* nlm_host_release(g, hostp) at time t.
nlm_host_release(R, h, t) ==
    LET R1 == [Deref(R, h) EXCEPT !.nh[h].refs = @ - 1] IN
    IF R1.nh[h].refs # 0 THEN R1
    ELSE TAILQ_INSERT_TAIL([R1 EXCEPT !.nh[h].idle_timeout = t + IdlePeriod], h)

\* kmem_cache_alloc(nlm_hosts_cache, KM_SLEEP): a free record, the lowest.
HostRecFree(hosts) == {h \in HostRecs : ~hosts[h].live}
kmem_cache_alloc(hosts) ==
    CHOOSE h \in HostRecFree(hosts) : \A o \in HostRecFree(hosts) : h <= o

\* nlm_create_host(): the fields it sets; the others keep what the record
\* held when it was last freed.
nlm_create_host(hosts, h, netid, addr) ==
    [hosts EXCEPT ![h] = [@ EXCEPT !.live = TRUE, !.sysid = LM_NOSYSID,
                                  !.refs = 1, !.netid = netid, !.addr = addr,
                                  !.vhold = FALSE, !.nv_refcnt = 0,
                                  !.state = 0]]

\* A faulty insert: the tree is not searched again before inserting.
nlm_host_findcreate_insert_nocheck(R, netid, addr, newhost) ==
    [R |-> [R EXCEPT !.g.hosts_tree = @ \cup {newhost},
                     !.g.hosts_hash[R.nh[newhost].sysid] = newhost],
     host |-> newhost, newhost |-> NULL]

\* nlm_host_findcreate(), second critical section: the host to return and the
\* surplus record to destroy; the hash insert is under VERIFY.
nlm_host_findcreate_insert(R, netid, addr, newhost) ==
    LET f == nlm_host_find_locked(R, netid, addr) IN
    IF f.host # NULL
    THEN [R |-> f.R, host |-> f.host, newhost |-> newhost]
    ELSE [R |-> [R EXCEPT !.g.hosts_tree = @ \cup {newhost},
                          !.g.hosts_hash[R.nh[newhost].sysid] = newhost,
                          !.ok = @ /\ R.g.hosts_hash[R.nh[newhost].sysid] = NULL],
          host |-> newhost, newhost |-> NULL]

\* nlm_host_unregister(): the host leaves the tree, the hash and the idle
\* list; avl_remove of a node that is not in the tree corrupts the tree, and
\* the hash removal is under VERIFY.
nlm_host_unregister(R, h) ==
    LET sysid == R.nh[h].sysid
        found == mod_hash_find(R, sysid)
    IN  IF h \notin R.g.hosts_tree \/ found = NULL
        THEN [R |-> [R EXCEPT !.ok = FALSE], host |-> h]
        ELSE [R |-> TAILQ_REMOVE([R EXCEPT !.g.hosts_tree = @ \ {h},
                                           !.g.hosts_hash[sysid] = NULL], found),
              host |-> found]

\* nlm_host_destroy(): the record goes back to the cache (its sysid is freed
\* by the caller's step).  What nlm_create_host() sets anew is forgotten; the
\* other fields keep their values in the cached record.
nlm_host_destroy(hosts, h) ==
    [hosts EXCEPT ![h] = [NoHost EXCEPT !.idle_timeout = hosts[h].idle_timeout,
                                        !.flags = hosts[h].flags,
                                        !.next = hosts[h].next,
                                        !.prev = hosts[h].prev]]

(***************************************************************************)
(* Vholds and locks of a host, as the garbage collector sees them.         *)
(***************************************************************************)
nlm_vhold_busy(hosts, locks, h) ==
    \/ hosts[h].nv_refcnt > 0
    \/ hosts[h].sysid \in locks.remote

nlm_host_gc_vholds(hosts, locks, h) ==
    IF hosts[h].vhold /\ ~nlm_vhold_busy(hosts, locks, h)
    THEN [hosts EXCEPT ![h].vhold = FALSE]
    ELSE hosts

nlm_host_has_locks(hosts, locks, h) ==
    \/ hosts[h].vhold
    \/ hosts[h].sysid \in locks.client

(***************************************************************************)
(* Handler threads.                                                        *)
(***************************************************************************)
RegR == [g |-> g, nh |-> nh, ok |-> TRUE]

\* The registry after a step; nothing more is known of it once it is corrupted.
Commit(R) ==
    IF R.ok THEN g' = R.g /\ nh' = R.nh /\ crashed' = FALSE
    ELSE UNCHANGED <<g, nh>> /\ crashed' = TRUE

Returned(p, host) ==
    /\ pc' = [pc EXCEPT ![p] = IF host = NULL THEN "idle" ELSE "held"]
    /\ loc' = [loc EXCEPT ![p] = IF host = NULL THEN NoLoc
                                 ELSE [NoLoc EXCEPT !.host = host]]

\* nlm_host_find(g, netid, addr)
HostFind(p, c) ==
    /\ ~crashed /\ pc[p] = "idle"
    /\ LET f == nlm_host_find(RegR, c.netid, c.addr) IN
        /\ f.host # NULL
        /\ Commit(f.R)
        /\ Returned(p, f.host)
    /\ UNCHANGED <<svcVars, sysidVars, now, flk, gc>>

\* nlm_host_find_by_sysid(g, sysid)
HostFindBySysid(p, sysid) ==
    /\ ~crashed /\ pc[p] = "idle"
    /\ LET f == nlm_host_find_by_sysid(RegR, sysid) IN
        /\ f.host # NULL
        /\ Commit(f.R)
        /\ Returned(p, f.host)
    /\ UNCHANGED <<svcVars, sysidVars, now, flk, gc>>

\* nlm_host_findcreate(), first critical section.
FindCreateLookup(p, c) ==
    /\ ~crashed /\ pc[p] = "idle"
    /\ g.run_status = NLM_ST_UP
    /\ LET f == nlm_host_find_locked(RegR, c.netid, c.addr) IN
        /\ Commit(f.R)
        /\ IF f.host # NULL THEN Returned(p, f.host)
           ELSE /\ pc' = [pc EXCEPT ![p] = "fc_create"]
                /\ loc' = [loc EXCEPT ![p] = [NoLoc EXCEPT !.netid = c.netid,
                                                           !.addr = c.addr]]
    /\ UNCHANGED <<svcVars, sysidVars, now, flk, gc>>

\* nlm_host_findcreate(): nlm_create_host() and nlm_sysid_alloc(), no
\* registry lock held.
FindCreateAlloc(p) ==
    /\ ~crashed /\ pc[p] = "fc_create"
    /\ HostRecFree(nh) # {}
    /\ LET h == kmem_cache_alloc(nh)
           a == nlm_sysid_alloc(nlm_sysid_bmap, nlm_sysid_nidx)
       IN
        /\ nh' = [nlm_create_host(nh, h, loc[p].netid, loc[p].addr)
                    EXCEPT ![h].sysid = a.ret]
        /\ nlm_sysid_bmap' = a.bmap
        /\ nlm_sysid_nidx' = a.nidx
        /\ loc' = [loc EXCEPT ![p].newhost = h]
        /\ pc' = [pc EXCEPT ![p] = IF a.ret = LM_NOSYSID THEN "fc_discard"
                                   ELSE "fc_insert"]
    /\ UNCHANGED <<svcVars, g, now, flk, gc, crashed>>

\* nlm_host_findcreate(), second critical section.
FindCreateInsert(p) ==
    /\ ~crashed /\ pc[p] = "fc_insert"
    /\ LET r == nlm_host_findcreate_insert(RegR, loc[p].netid, loc[p].addr,
                                           loc[p].newhost) IN
        /\ Commit(r.R)
        /\ IF r.newhost = NULL THEN Returned(p, r.host)
           ELSE /\ pc' = [pc EXCEPT ![p] = "fc_discard"]
                /\ loc' = [loc EXCEPT ![p].host = r.host]
    /\ UNCHANGED <<svcVars, sysidVars, now, flk, gc>>

\* nlm_host_findcreate(), out: the surplus record is destroyed.
FindCreateDiscard(p) ==
    /\ ~crashed /\ pc[p] = "fc_discard"
    /\ LET h == loc[p].newhost IN
        /\ nlm_sysid_bmap' = IF nh[h].sysid # LM_NOSYSID
                             THEN nlm_sysid_free(nlm_sysid_bmap, nh[h].sysid)
                             ELSE nlm_sysid_bmap
        /\ nh' = nlm_host_destroy(nh, h)
    /\ Returned(p, loc[p].host)
    /\ UNCHANGED <<svcVars, nlm_sysid_nidx, g, now, flk, gc, crashed>>

\* nlm_vhold_get(hostp, vp), as nlm_fh_to_vhold calls it.
VholdGet(p) ==
    /\ ~crashed /\ pc[p] = "held"
    /\ nh' = [nh EXCEPT ![loc[p].host].vhold = TRUE,
                        ![loc[p].host].nv_refcnt = @ + 1]
    /\ pc' = [pc EXCEPT ![p] = "vheld"]
    /\ UNCHANGED <<svcVars, sysidVars, g, now, flk, loc, gc, crashed>>

\* The handler's work on the file, then nlm_vhold_release(hostp, nvp): it
\* may set or clear a lock or share of the host's sysid in the local lock
\* engine, and drops its reference on the vhold.
VholdRelease(p, op) ==
    /\ ~crashed /\ pc[p] = "vheld"
    /\ LET sysid == nh[loc[p].host].sysid IN
        flk' = [flk EXCEPT !.remote = IF ~op THEN @
                                      ELSE IF sysid \in @ THEN @ \ {sysid}
                                      ELSE @ \cup {sysid}]
    /\ nh' = [nh EXCEPT ![loc[p].host].nv_refcnt = @ - 1]
    /\ pc' = [pc EXCEPT ![p] = "rel"]
    /\ UNCHANGED <<svcVars, sysidVars, g, now, loc, gc, crashed>>

\* The client side sets or clears a lock it holds on the host (a server) in
\* the local lock engine, under sysid | LM_SYSID_CLIENT.
ClientLockOp(p) ==
    /\ ~crashed /\ pc[p] = "held"
    /\ LET sysid == nh[loc[p].host].sysid IN
        flk' = [flk EXCEPT !.client = IF sysid \in @ THEN @ \ {sysid}
                                      ELSE @ \cup {sysid}]
    /\ pc' = [pc EXCEPT ![p] = "rel"]
    /\ UNCHANGED <<svcVars, sysidVars, g, nh, now, loc, gc, crashed>>

\* nlm_host_release(g, hostp)
HostRelease(p) ==
    /\ ~crashed /\ pc[p] \in {"held", "rel"}
    /\ Commit(nlm_host_release(RegR, loc[p].host, now))
    /\ pc' = [pc EXCEPT ![p] = "idle"]
    /\ loc' = [loc EXCEPT ![p] = NoLoc]
    /\ UNCHANGED <<svcVars, sysidVars, now, flk, gc>>

\* The clock.
Tick ==
    /\ ~crashed /\ now < MaxTime
    /\ now' = now + 1
    /\ UNCHANGED <<svcVars, sysidVars, g, nh, flk, pc, loc, gc, crashed>>

(***************************************************************************)
(* The garbage collector thread, nlm_gc().                                 *)
(***************************************************************************)
\* cv_timedwait() returns (by timeout or by a broadcast of nlm_kmem_reclaim);
\* the thread exits if NLM is stopping and otherwise samples the clock.
GcWake ==
    /\ ~crashed /\ gc.pc = "wait"
    /\ IF g.run_status = NLM_ST_STOPPING
       THEN /\ gc' = [gc EXCEPT !.pc = "exited"]
            /\ g' = [g EXCEPT !.gc_thread = FALSE]
       ELSE /\ gc' = [gc EXCEPT !.pc = "scan", !.now = now]
            /\ g' = g
    /\ UNCHANGED <<svcVars, sysidVars, nh, now, flk, pc, loc, crashed>>

\* The head of the while loop: the first idle host, if its timeout is over.
GcScan ==
    /\ ~crashed /\ gc.pc = "scan"
    /\ LET hostp == g.idle_first IN
        IF hostp = NULL
        THEN gc' = [gc EXCEPT !.pc = "wait", !.host = NULL, !.now = 0,
                              !.unmon = NoUnmon] /\ crashed' = FALSE
        ELSE IF ~nh[hostp].live
        THEN gc' = gc /\ crashed' = TRUE
        ELSE IF nh[hostp].idle_timeout > gc.now
        THEN gc' = [gc EXCEPT !.pc = "wait", !.host = NULL, !.now = 0,
                              !.unmon = NoUnmon] /\ crashed' = FALSE
        ELSE gc' = [gc EXCEPT !.pc = "examine", !.host = hostp,
                              !.unmon = NoUnmon] /\ crashed' = FALSE
    /\ UNCHANGED <<svcVars, sysidVars, g, nh, now, flk, pc, loc>>

\* Under the host lock, g->lock dropped: nlm_host_gc_vholds() and
\* nlm_host_has_locks().
GcExamine ==
    /\ ~crashed /\ gc.pc = "examine"
    /\ Commit([Deref(RegR, gc.host) EXCEPT !.nh = nlm_host_gc_vholds(nh, flk, gc.host)])
    /\ gc' = [gc EXCEPT !.pc = "recheck",
                        !.has_locks = nlm_host_has_locks(
                            nlm_host_gc_vholds(nh, flk, gc.host), flk, gc.host)]
    /\ UNCHANGED <<svcVars, sysidVars, now, flk, pc, loc>>

\* A faulty collector: the host's reference count is not looked at.
GcRenew_norefs(hosts, h, has_locks) == has_locks

\* Whether the collector renews the host's timeout instead of destroying it.
GcRenew(hosts, h, has_locks) == has_locks \/ hosts[h].refs > 0

\* Under g->lock again: the host was renewed meanwhile, or is renewed now and
\* put at the tail of the list, or is unregistered.
GcRecheck ==
    /\ ~crashed /\ gc.pc = "recheck"
    /\ LET hostp == gc.host IN
        IF ~nh[hostp].live
        THEN /\ Commit(Deref(RegR, hostp))
             /\ gc' = gc
        ELSE IF nh[hostp].idle_timeout > gc.now
        THEN /\ gc' = [gc EXCEPT !.pc = "scan", !.host = NULL, !.has_locks = FALSE]
             /\ UNCHANGED <<svcVars, g, nh, crashed>>
        ELSE IF GcRenew(nh, hostp, gc.has_locks)
        THEN LET R1 == TAILQ_REMOVE(RegR, hostp)
                 R2 == [R1 EXCEPT !.nh[hostp].idle_timeout = gc.now + IdlePeriod]
                 R3 == TAILQ_INSERT_TAIL(R2, hostp)
             IN  /\ Commit(R3)
                 /\ gc' = [gc EXCEPT !.pc = "scan", !.host = NULL, !.has_locks = FALSE]
        ELSE LET u == nlm_host_unregister(RegR, hostp) IN
             /\ Commit(u.R)
             /\ gc' = [gc EXCEPT !.pc = "destroy", !.host = u.host, !.has_locks = FALSE]
    /\ UNCHANGED <<svcVars, sysidVars, now, flk, pc, loc>>

\* A faulty nlm_host_unmonitor(): the flag stays when statd cannot be reached.
nlm_host_unmonitor_keep(hosts, h, ok) ==
    IF NLM_NH_MONITORED \notin hosts[h].flags \/ ~ok THEN hosts
    ELSE [hosts EXCEPT ![h].flags = @ \ {NLM_NH_MONITORED}]

\* nlm_host_unmonitor(g, host) for a host nobody refers to: the flag is
\* cleared before SM_UNMON is called, and a failure of the call (ok = FALSE)
\* is only logged.
nlm_host_unmonitor(hosts, h, ok) ==
    IF NLM_NH_MONITORED \notin hosts[h].flags THEN hosts
    ELSE [hosts EXCEPT ![h].flags = @ \ {NLM_NH_MONITORED}]

\* No lock held: nlm_host_unmonitor() and nlm_host_destroy(); then, under
\* g->lock, the thread leaves if NLM is stopping.  ok is the outcome of
\* SM_UNMON, if it is called.
GcDestroy(ok) ==
    /\ ~crashed /\ gc.pc = "destroy"
    /\ LET hostp == gc.host
           called == NLM_NH_MONITORED \in nh[hostp].flags
           um == [host |-> hostp, sysid |-> nh[hostp].sysid,
                  called |-> called, ok |-> called /\ ok]
       IN
        /\ nh' = nlm_host_destroy(nlm_host_unmonitor(nh, hostp, ok), hostp)
        /\ nlm_sysid_bmap' = IF nh[hostp].sysid # LM_NOSYSID
                             THEN nlm_sysid_free(nlm_sysid_bmap, nh[hostp].sysid)
                             ELSE nlm_sysid_bmap
        /\ IF g.run_status = NLM_ST_STOPPING
           THEN /\ gc' = [gc EXCEPT !.pc = "exited", !.host = NULL, !.unmon = um]
                /\ g' = [g EXCEPT !.gc_thread = FALSE]
           ELSE /\ gc' = [gc EXCEPT !.pc = "scan", !.host = NULL, !.unmon = um]
                /\ g' = g
    /\ UNCHANGED <<svcVars, nlm_sysid_nidx, now, flk, pc, loc, crashed>>

(***************************************************************************)
(* Shutdown: nlm_svc_stop() and nlm_svc_stopping().                        *)
(***************************************************************************)
\* run_status becomes STOPPING under g->lock (the shutdown_lm path of
\* nlm_svc_starting, or the module stopping the service), the GC thread is
\* signalled.
SvcStop ==
    /\ ~crashed /\ st.pc = "up"
    /\ g.run_status = NLM_ST_UP
    /\ g' = [g EXCEPT !.run_status = NLM_ST_STOPPING]
    /\ st' = [st EXCEPT !.pc = "wait_gc"]
    /\ UNCHANGED <<recl, sysidVars, nh, now, flk, pc, loc, gc, crashed>>

\* while (g->nlm_gc_thread != NULL) cv_wait(...)
StopWaitGc ==
    /\ ~crashed /\ st.pc = "wait_gc"
    /\ ~g.gc_thread
    /\ st' = [st EXCEPT !.pc = "sweep"]
    /\ UNCHANGED <<recl, sysidVars, g, nh, now, flk, pc, loc, gc, crashed>>

\* One host of the sweep: its client side and server side locks are dropped
\* by force and its vholds collected.
StopSweepHost(hosts, locks, h) ==
    LET sysid == hosts[h].sysid
        l1 == [locks EXCEPT !.client = @ \ {sysid},
                            !.remote = IF hosts[h].vhold THEN @ \ {sysid} ELSE @]
    IN  [nh |-> nlm_host_gc_vholds(hosts, l1, h), flk |-> l1]

RECURSIVE StopSweepAll(_, _, _)
StopSweepAll(hosts, locks, todo) ==
    IF todo = {} THEN [nh |-> hosts, flk |-> locks]
    ELSE LET h == CHOOSE x \in todo : TRUE
             r == StopSweepHost(hosts, locks, h)
         IN  StopSweepAll(r.nh, r.flk, todo \ {h})

\* The outer loop of nlm_svc_stopping(): all is over when the tree is empty;
\* otherwise every host of the tree is swept (no g->lock held).
StopSweep ==
    /\ ~crashed /\ st.pc = "sweep"
    /\ IF g.hosts_tree = {}
       THEN /\ g' = [g EXCEPT !.run_status = NLM_ST_DOWN]
            /\ st' = [st EXCEPT !.pc = "down"]
            /\ UNCHANGED <<recl, nh, flk, crashed>>
       ELSE IF \E h \in g.hosts_tree : ~nh[h].live
       THEN crashed' = TRUE /\ UNCHANGED <<g, nh, flk, st>>
       ELSE LET r == StopSweepAll(nh, flk, g.hosts_tree) IN
            /\ nh' = r.nh /\ flk' = r.flk
            /\ st' = [st EXCEPT !.pc = "drain",
                                !.busy = \E h \in g.hosts_tree :
                                    \/ r.nh[h].refs > 0
                                    \/ nlm_host_has_locks(r.nh, r.flk, h)]
            /\ UNCHANGED <<recl, g, crashed>>
    /\ UNCHANGED <<recl, sysidVars, now, pc, loc, gc>>

\* while ((hostp = TAILQ_FIRST(&g->nlm_idle_hosts)) != NULL), no lock held.
StopDrain ==
    /\ ~crashed /\ st.pc = "drain"
    /\ st' = IF g.idle_first = NULL
             THEN [st EXCEPT !.pc = "sweep", !.busy = FALSE]
             ELSE [st EXCEPT !.pc = "unreg_tree", !.host = g.idle_first]
    /\ UNCHANGED <<recl, sysidVars, g, nh, now, flk, pc, loc, gc, crashed>>

\* nlm_host_unregister() without g->lock, step by step: avl_remove()
StopUnregTree ==
    /\ ~crashed /\ st.pc = "unreg_tree"
    /\ Commit([Deref(RegR, st.host) EXCEPT !.g.hosts_tree = @ \ {st.host},
                                            !.ok = @ /\ st.host \in g.hosts_tree])
    /\ st' = [st EXCEPT !.pc = "unreg_hash"]
    /\ UNCHANGED <<recl, sysidVars, now, flk, pc, loc, gc>>

\* ... VERIFY(mod_hash_remove(...) == 0)
StopUnregHash ==
    /\ ~crashed /\ st.pc = "unreg_hash"
    /\ LET sysid == nh[st.host].sysid
           found == mod_hash_find(RegR, sysid)
       IN  IF found = NULL
           THEN Commit([RegR EXCEPT !.ok = FALSE]) /\ st' = st
           ELSE /\ Commit([RegR EXCEPT !.g.hosts_hash[sysid] = NULL])
                /\ st' = [st EXCEPT !.pc = "unreg_idle", !.host = found]
    /\ UNCHANGED <<recl, sysidVars, now, flk, pc, loc, gc>>

\* ... TAILQ_REMOVE(&g->nlm_idle_hosts, hostp, nh_link)
StopUnregIdle ==
    /\ ~crashed /\ st.pc = "unreg_idle"
    /\ Commit(TAILQ_REMOVE(RegR, st.host))
    /\ st' = [st EXCEPT !.pc = "destroy"]
    /\ UNCHANGED <<recl, sysidVars, now, flk, pc, loc, gc>>

\* nlm_host_destroy(hostp)
StopDestroy ==
    /\ ~crashed /\ st.pc = "destroy"
    /\ nh' = nlm_host_destroy(nh, st.host)
    /\ nlm_sysid_bmap' = IF nh[st.host].sysid # LM_NOSYSID
                         THEN nlm_sysid_free(nlm_sysid_bmap, nh[st.host].sysid)
                         ELSE nlm_sysid_bmap
    /\ st' = [st EXCEPT !.pc = "drain", !.host = NULL]
    /\ UNCHANGED <<recl, nlm_sysid_nidx, g, now, flk, pc, loc, gc, crashed>>

(***************************************************************************)
(* State change notifications (nlm_do_notify1) and lock reclaim threads.   *)
(***************************************************************************)
\* hostp->nh_lock is held from the test of NLM_NH_RECLAIM in
\* nlm_host_notify_client() to the store of the new reference count.
nh_lock_held(h) == \E p \in Procs : pc[p] = "nc_store" /\ loc[p].host = h

\* nlm_do_notify1(): the host is looked up by the sysid that statd carries.
Notify1Find(p, sysid, state) ==
    /\ ~crashed /\ pc[p] = "idle"
    /\ LET f == nlm_host_find_by_sysid(RegR, sysid) IN
        /\ f.host # NULL
        /\ f.R.nh[f.host].refs \in 1..MaxRefs
        /\ recl[f.host].run + recl[f.host].rel < MaxWorkers
        /\ Commit(f.R)
        /\ pc' = [pc EXCEPT ![p] = "n1_found"]
        /\ loc' = [loc EXCEPT ![p] = [NoLoc EXCEPT !.host = f.host, !.state = state]]
    /\ UNCHANGED <<svcVars, sysidVars, now, flk, gc>>

\* nlm_host_notify_server(host, state): under nh_lock the state is recorded;
\* the server side locks and shares of the host's vholds are cleaned.
Notify1Server(p) ==
    /\ ~crashed /\ pc[p] = "n1_found"
    /\ ~nh_lock_held(loc[p].host)
    /\ LET h == loc[p].host IN
        /\ nh' = [nh EXCEPT ![h].state = IF loc[p].state # 0 THEN loc[p].state ELSE @]
        /\ flk' = [flk EXCEPT !.remote = IF nh[h].vhold THEN @ \ {nh[h].sysid} ELSE @]
    /\ pc' = [pc EXCEPT ![p] = "n1_client"]
    /\ UNCHANGED <<svcVars, sysidVars, g, now, loc, gc, crashed>>

\* A faulty notification: a reclaimer is started whatever the flags are.
nlm_host_notify_client_starts_always(flags) == TRUE

\* nlm_host_notify_client(): whether this call starts the recovery.
nlm_host_notify_client_starts(flags) == NLM_NH_RECLAIM \notin flags

\* nlm_host_notify_client(): nh_lock is taken, the state recorded and
\* NLM_NH_RECLAIM tested; the call returns if it is set, and otherwise sets
\* it and reads nh_refs to increment it (g->lock, under which the other
\* threads change nh_refs, is not held).
NotifyClientLock(p) ==
    /\ ~crashed /\ pc[p] = "n1_client"
    /\ ~nh_lock_held(loc[p].host)
    /\ LET h == loc[p].host IN
        IF nlm_host_notify_client_starts(nh[h].flags)
        THEN /\ nh' = [nh EXCEPT ![h].state = loc[p].state,
                                 ![h].flags = @ \cup {NLM_NH_RECLAIM}]
             /\ loc' = [loc EXCEPT ![p].refs = nh[h].refs]
             /\ pc' = [pc EXCEPT ![p] = "nc_store"]
        ELSE /\ nh' = [nh EXCEPT ![h].state = loc[p].state]
             /\ loc' = loc
             /\ pc' = [pc EXCEPT ![p] = "rel"]
    /\ UNCHANGED <<svcVars, sysidVars, g, now, flk, gc, crashed>>

\* ... hostp->nh_refs++ is completed and nh_lock dropped.
NotifyClientStore(p) ==
    /\ ~crashed /\ pc[p] = "nc_store"
    /\ nh' = [nh EXCEPT ![loc[p].host].refs = loc[p].refs + 1]
    /\ loc' = [loc EXCEPT ![p].refs = 0]
    /\ pc' = [pc EXCEPT ![p] = "nc_spawn"]
    /\ UNCHANGED <<svcVars, sysidVars, g, now, flk, gc, crashed>>

\* ... zthread_create(NULL, 0, nlm_reclaimer, hostp, 0, minclsyspri)
NotifyClientSpawn(p) ==
    /\ ~crashed /\ pc[p] = "nc_spawn"
    /\ recl' = [recl EXCEPT ![loc[p].host].run = @ + 1]
    /\ pc' = [pc EXCEPT ![p] = "rel"]
    /\ UNCHANGED <<st, sysidVars, g, nh, now, flk, loc, gc, crashed>>

\* cv_broadcast(&hostp->nh_recl_cv): the threads that sleep in
\* nlm_host_wait_grace() for host h are woken.
nh_recl_cv_broadcast(P, h) ==
    [p \in Procs |-> IF P[p] = "wg_sleep" /\ loc[p].host = h THEN "wg_woken"
                     ELSE P[p]]

\* nlm_reclaimer(): after nlm_reclaim_client(), NLM_NH_RECLAIM is cleared
\* under nh_lock and the waiters on nh_recl_cv are woken.
ReclaimerClear(h) ==
    /\ ~crashed /\ recl[h].run > 0
    /\ ~nh_lock_held(h)
    /\ Commit([Deref(RegR, h) EXCEPT !.nh[h].flags = @ \ {NLM_NH_RECLAIM}])
    /\ recl' = [recl EXCEPT ![h].run = @ - 1, ![h].rel = @ + 1]
    /\ pc' = nh_recl_cv_broadcast(pc, h)
    /\ UNCHANGED <<st, sysidVars, now, flk, loc, gc>>

\* nlm_reclaimer(): nlm_host_release(g, hostp), then zthread_exit().
ReclaimerRelease(h) ==
    /\ ~crashed /\ recl[h].rel > 0
    /\ Commit(nlm_host_release(RegR, h, now))
    /\ recl' = [recl EXCEPT ![h].rel = @ - 1]
    /\ UNCHANGED <<st, sysidVars, now, flk, pc, loc, gc>>

(***************************************************************************)
(* The handle of the local status monitor, struct nlm_nsm: every           *)
(* nlm_nsm_* function brackets its RPC with sema_v() before and sema_p()   *)
(* after the call.                                                         *)
(***************************************************************************)
NsmThreads == 1..MaxNsmThreads
NsmProcs == {"SM_SIMU_CRASH", "SM_STAT", "SM_MON", "SM_UNMON", "SM_UNMON_ALL"}

\* sema_init(&nsm->ns_sem, 1, ...)
NsmSemInit == 1

NoNsmCall == [pc |-> "idle", proc |-> "none"]

NsmInit ==
    /\ nsm_sem = NsmSemInit
    /\ nsm_th = [t \in NsmThreads |-> NoNsmCall]

\* sema_v() raises the count and never blocks; sema_p() blocks while the
\* count is 0 and lowers it.
sema_v(count) == count + 1
sema_p_ready(count) == count > 0
sema_p(count) == count - 1

\* nlm_nsm_simu_crash(), nlm_nsm_stat(), nlm_nsm_mon(), nlm_nsm_unmon(),
\* nlm_nsm_unmon_all(): sema_v(&nsm->ns_sem), then the call is sent on
\* ns_handle.
NsmSemaV(t, proc) ==
    /\ nsm_th[t].pc = "idle"
    /\ nsm_sem' = sema_v(nsm_sem)
    /\ nsm_th' = [nsm_th EXCEPT ![t] = [pc |-> "rpc", proc |-> proc]]

\* The RPC returns (with RPC_SUCCESS or not).
NsmRpcReturn(t) ==
    /\ nsm_th[t].pc = "rpc"
    /\ nsm_th' = [nsm_th EXCEPT ![t].pc = "sema_p"]
    /\ UNCHANGED nsm_sem

\* sema_p(&nsm->ns_sem), and the function returns.
NsmSemaP(t) ==
    /\ nsm_th[t].pc = "sema_p"
    /\ sema_p_ready(nsm_sem)
    /\ nsm_sem' = sema_p(nsm_sem)
    /\ nsm_th' = [nsm_th EXCEPT ![t] = NoNsmCall]

(***************************************************************************)
(* The locks and what each function does with them.  A function is the     *)
(* sequence of its lock operations and of its accesses to shared fields,   *)
(* in the order of its code: <<"acq", lock>>, <<"rel", lock>>,             *)
(* <<"acc", field>> and <<"rpc", callee>> for a call that blocks outside   *)
(* NLM.  Fields of a host record no other thread can reach (a host not yet *)
(* inserted, or unregistered with no reference) are left out.              *)
(***************************************************************************)
LoThreads == 1..MaxLockThreads
LoLocks == {"lm_lck", "g_lock", "nh_lock"}

\* The order the locks are to be taken in: outer locks have lower ranks.
LoRank(l) == CASE l = "lm_lck" -> 1 [] l = "g_lock" -> 2 [] l = "nh_lock" -> 3

\* The lock that protects a field.
LoProtects(f) ==
    CASE f \in {"nlm_sysid_bmap", "nlm_zones_list"} -> "lm_lck"
      [] f \in {"nlm_hosts_tree", "nlm_hosts_hash", "nlm_idle_hosts",
                "nlm_slocks", "run_status", "nh_refs"} -> "g_lock"
      [] f \in {"nh_vholds", "nv_slreqs", "nh_flags", "nh_rpchc"} -> "nh_lock"

LoScript(fn) ==
    CASE fn = "nlm_host_find" ->
           <<<<"acq", "g_lock">>, <<"acc", "run_status">>,
             <<"acc", "nlm_hosts_tree">>, <<"acc", "nlm_idle_hosts">>,
             <<"acc", "nh_refs">>, <<"rel", "g_lock">>>>
      [] fn = "nlm_host_find_by_sysid" ->
           <<<<"acq", "g_lock">>, <<"acc", "run_status">>,
             <<"acc", "nlm_hosts_hash">>, <<"acc", "nlm_idle_hosts">>,
             <<"acc", "nh_refs">>, <<"rel", "g_lock">>>>
      [] fn = "nlm_host_findcreate" ->
           <<<<"acq", "g_lock">>, <<"acc", "run_status">>,
             <<"acc", "nlm_hosts_tree">>, <<"rel", "g_lock">>,
             <<"acq", "lm_lck">>, <<"acc", "nlm_sysid_bmap">>,
             <<"rel", "lm_lck">>,
             <<"acq", "g_lock">>, <<"acc", "nlm_hosts_tree">>,
             <<"acc", "nlm_hosts_hash">>, <<"rel", "g_lock">>,
             <<"acq", "lm_lck">>, <<"acc", "nlm_sysid_bmap">>,
             <<"rel", "lm_lck">>>>
      [] fn = "nlm_host_release" ->
           <<<<"acq", "g_lock">>, <<"acc", "nh_refs">>,
             <<"acc", "nlm_idle_hosts">>, <<"rel", "g_lock">>>>
      [] fn = "nlm_gc" ->
           <<<<"acq", "g_lock">>, <<"acc", "run_status">>,
             <<"acc", "nlm_idle_hosts">>, <<"rel", "g_lock">>,
             <<"acq", "nh_lock">>, <<"acc", "nh_vholds">>,
             <<"rel", "nh_lock">>,
             <<"acq", "g_lock">>, <<"acc", "nh_refs">>,
             <<"acc", "nlm_idle_hosts">>, <<"acc", "nlm_hosts_tree">>,
             <<"acc", "nlm_hosts_hash">>, <<"rel", "g_lock">>,
             <<"rpc", "SM_UNMON">>,
             <<"acq", "lm_lck">>, <<"acc", "nlm_sysid_bmap">>,
             <<"rel", "lm_lck">>,
             <<"acq", "g_lock">>, <<"acc", "run_status">>,
             <<"rel", "g_lock">>>>
      [] fn = "nlm_kmem_reclaim" ->
           <<<<"acq", "lm_lck">>, <<"acc", "nlm_zones_list">>,
             <<"rel", "lm_lck">>>>
      [] fn = "nlm_reclaimer" ->
           <<<<"rpc", "nlm_reclaim_client">>,
             <<"acq", "nh_lock">>, <<"acc", "nh_flags">>,
             <<"rel", "nh_lock">>,
             <<"acq", "g_lock">>, <<"acc", "nh_refs">>,
             <<"acc", "nlm_idle_hosts">>, <<"rel", "g_lock">>>>
      [] fn = "nlm_vhold_get" ->
           <<<<"acq", "nh_lock">>, <<"acc", "nh_vholds">>,
             <<"rel", "nh_lock">>,
             <<"acq", "nh_lock">>, <<"acc", "nh_vholds">>,
             <<"rel", "nh_lock">>>>
      [] fn = "nlm_vhold_release" ->
           <<<<"acq", "nh_lock">>, <<"acc", "nh_vholds">>,
             <<"rel", "nh_lock">>>>
      [] fn = "nlm_host_notify_server" ->
           <<<<"acq", "nh_lock">>, <<"acc", "nh_vholds">>,
             <<"acc", "nv_slreqs">>, <<"rel", "nh_lock">>,
             <<"rpc", "cleanlocks">>,
             <<"acq", "nh_lock">>, <<"acc", "nh_vholds">>,
             <<"rel", "nh_lock">>>>
      [] fn = "nlm_host_notify_client" ->
           <<<<"acq", "nh_lock">>, <<"acc", "nh_flags">>,
             <<"acc", "nh_refs">>, <<"rel", "nh_lock">>>>
      [] fn = "nlm_host_wait_grace" ->
           <<<<"acq", "nh_lock">>, <<"acc", "nh_flags">>,
             <<"rel", "nh_lock">>>>
      [] fn = "nlm_host_cancel_slocks" ->
           <<<<"acq", "g_lock">>, <<"acc", "nlm_slocks">>,
             <<"rel", "g_lock">>>>
      [] fn = "nlm_host_monitor" ->
           <<<<"acq", "nh_lock">>, <<"acc", "nh_flags">>,
             <<"rel", "nh_lock">>,
             <<"rpc", "SM_MON">>,
             <<"acq", "g_lock">>, <<"acc", "nh_flags">>,
             <<"rel", "g_lock">>>>
      [] fn = "nlm_slock_wait" ->
           <<<<"acq", "g_lock">>, <<"acc", "nlm_slocks">>,
             <<"rel", "g_lock">>>>
      [] fn = "nlm_slreq_register" ->
           <<<<"acq", "nh_lock">>, <<"acc", "nv_slreqs">>,
             <<"rel", "nh_lock">>,
             <<"acq", "nh_lock">>, <<"acc", "nv_slreqs">>,
             <<"rel", "nh_lock">>>>
      [] fn = "nlm_slreq_unregister" ->
           <<<<"acq", "nh_lock">>, <<"acc", "nv_slreqs">>,
             <<"rel", "nh_lock">>>>
      [] fn = "nlm_vp_active" ->
           <<<<"acq", "g_lock">>, <<"acc", "nlm_hosts_tree">>,
             <<"acc", "nh_vholds">>, <<"rel", "g_lock">>>>
      [] fn = "nlm_svc_stopping" ->
           <<<<"acq", "g_lock">>, <<"rel", "g_lock">>,
             <<"acc", "nlm_hosts_tree">>,
             <<"acq", "g_lock">>, <<"acc", "nlm_slocks">>,
             <<"rel", "g_lock">>,
             <<"acq", "nh_lock">>, <<"acc", "nh_vholds">>,
             <<"acc", "nv_slreqs">>, <<"rel", "nh_lock">>,
             <<"acq", "nh_lock">>, <<"acc", "nh_vholds">>,
             <<"acc", "nh_refs">>, <<"rel", "nh_lock">>,
             <<"acc", "nlm_idle_hosts">>, <<"acc", "nlm_hosts_tree">>,
             <<"acc", "nlm_hosts_hash">>,
             <<"acq", "lm_lck">>, <<"acc", "nlm_sysid_bmap">>,
             <<"rel", "lm_lck">>,
             <<"rpc", "SM_UNMON_ALL">>, <<"acc", "run_status">>>>

LoFns == {"nlm_host_find", "nlm_host_find_by_sysid", "nlm_host_findcreate",
          "nlm_host_release", "nlm_gc", "nlm_kmem_reclaim", "nlm_reclaimer",
          "nlm_vhold_get", "nlm_vhold_release", "nlm_host_notify_server",
          "nlm_host_notify_client", "nlm_host_wait_grace",
          "nlm_host_cancel_slocks", "nlm_host_monitor", "nlm_slock_wait",
          "nlm_slreq_register", "nlm_slreq_unregister", "nlm_vp_active",
          "nlm_svc_stopping"}

NoLoCall == [fn |-> "none", i |-> 0]

LoInit ==
    /\ lo_own = [l \in LoLocks |-> 0]
    /\ lo_th = [t \in LoThreads |-> NoLoCall]

\* The operation thread t is about to do.
LoOp(t) ==
    IF lo_th[t].fn = "none" THEN <<"none", "none">>
    ELSE LoScript(lo_th[t].fn)[lo_th[t].i]

LoHeld(t) == {l \in LoLocks : lo_own[l] = t}

\* After an operation: the next one, or the function returns.
LoAdvance(t) ==
    lo_th' = [lo_th EXCEPT ![t] =
                 IF @.i = Len(LoScript(@.fn)) THEN NoLoCall
                 ELSE [@ EXCEPT !.i = @ + 1]]

\* A thread enters one of the functions.
LoCall(t, fn) ==
    /\ lo_th[t].fn = "none"
    /\ lo_th' = [lo_th EXCEPT ![t] = [fn |-> fn, i |-> 1]]
    /\ UNCHANGED lo_own

\* mutex_enter() and rw_enter(): the thread waits while the lock is held.
LoAcquire(t) ==
    /\ LoOp(t)[1] = "acq"
    /\ lo_own[LoOp(t)[2]] = 0
    /\ lo_own' = [lo_own EXCEPT ![LoOp(t)[2]] = t]
    /\ LoAdvance(t)

\* mutex_exit() and rw_exit()
LoRelease(t) ==
    /\ LoOp(t)[1] = "rel"
    /\ lo_own' = [lo_own EXCEPT ![LoOp(t)[2]] = 0]
    /\ LoAdvance(t)

\* A read or write of a shared field, or a call that blocks outside NLM.
LoAccess(t) ==
    /\ LoOp(t)[1] \in {"acc", "rpc"}
    /\ LoAdvance(t)
    /\ UNCHANGED lo_own

(***************************************************************************)
(* One host and the local status monitor: nh_flags of the host, the MON    *)
(* registration statd holds for it, and the threads that work on the       *)
(* flags.                                                                  *)
(***************************************************************************)
NoMoCall == [pc |-> "idle", tmp |-> {}]

\* The service threads and the host's reclaimer thread.
MoProcs == Procs \cup {"p3"}
MoThreads == MoProcs \cup {"reclaimer"}

MoInit ==
    /\ mo_flags = {}
    /\ mo_sm = FALSE
    /\ mo_th = [p \in MoThreads |-> NoMoCall]

(***************************************************************************)
(* Vnode holds and vholds (nlm_fh_to_vhold, nlm_vhold_get and the vhold     *)
(* collector), for hosts the handlers hold a reference of.                 *)
(***************************************************************************)
Vnodes == 1..MaxVnodes
VhHosts == 1..MaxVhHosts
\* File handles: 0 is one lm_fhtovp() knows no vnode for, fh v names vnode v.
Fhs == 0..MaxVnodes

\* vp->v_vfsp->vfs_flag & VFS_RDONLY
VFS_RDONLY(vp) == vp = MaxVnodes

NoVhold == [live |-> FALSE, nv_refcnt |-> 0]
NoVloc == [host |-> NULL, vp |-> NULL, created |-> FALSE, second |-> FALSE,
           holds |-> 0]

VhInit ==
    /\ v_count = [vp \in Vnodes |-> 0]
    /\ vh = [h \in VhHosts |-> [vp \in Vnodes |-> NoVhold]]
    /\ vlk = {}
    /\ vpc = [p \in Procs |-> "idle"]
    /\ vloc = [p \in Procs |-> NoVloc]


\* A faulty nlm_fh_to_vp(): it does not look at the file system's flags.
nlm_fh_to_vp_anyfs(fh) == IF fh = 0 THEN NULL ELSE fh

\* nlm_fh_to_vp(): the vnode of the file handle, held, or NULL; a vnode of a
\* read only file system is released again.
nlm_fh_to_vp(fh) == IF fh = 0 \/ VFS_RDONLY(fh) THEN NULL ELSE fh

\* nlm_vhold_find_locked(): the host's vholds after the lookup, and whether
\* there was one for vp.
nlm_vhold_find_locked(H, vp) ==
    IF H[vp].live
    THEN [H |-> [H EXCEPT ![vp].nv_refcnt = @ + 1], found |-> TRUE]
    ELSE [H |-> H, found |-> FALSE]

\* A faulty second half of nlm_vhold_get(): it does not look again.
nlm_vhold_get_insert_nocheck(H, vp) ==
    [H |-> [H EXCEPT ![vp] = [live |-> TRUE, nv_refcnt |-> 1]],
     created |-> TRUE]

\* The second critical section of nlm_vhold_get(): look again, and only if
\* there still is no vhold for vp install the new one, with one reference
\* and one VN_HOLD.
nlm_vhold_get_insert(H, vp) ==
    LET f == nlm_vhold_find_locked(H, vp) IN
    IF f.found
    THEN [H |-> f.H, created |-> FALSE]
    ELSE [H |-> [H EXCEPT ![vp] = [live |-> TRUE, nv_refcnt |-> 1]],
          created |-> TRUE]

\* nlm_vhold_busy() for the vhold of vp at host h.
VhBusy(h, vp) ==
    vh[h][vp].nv_refcnt > 0 \/ <<h, vp>> \in vlk \/ <<h, vp>> \in vshr

\* nlm_fh_to_vhold() up to the return of nlm_fh_to_vp().
VhFhToVp(p, h, fh) ==
    /\ vpc[p] = "idle"
    /\ LET vp == nlm_fh_to_vp(fh) IN
        IF vp = NULL
        THEN /\ vloc' = [vloc EXCEPT ![p] = NoVloc]
             /\ UNCHANGED <<v_count, vpc>>
        ELSE /\ v_count' = [v_count EXCEPT ![vp] = @ + 1]
             /\ vpc' = [vpc EXCEPT ![p] = "vp_held"]
             /\ vloc' = [vloc EXCEPT ![p] =
                    [host |-> h, vp |-> vp, created |-> FALSE,
                     second |-> FALSE, holds |-> 1]]
    /\ UNCHANGED <<vh, vlk>>

\* nlm_vhold_get(), the first critical section.
VhGetFind(p) ==
    /\ vpc[p] = "vp_held"
    /\ LET h == vloc[p].host
           f == nlm_vhold_find_locked(vh[h], vloc[p].vp) IN
        /\ vh' = [vh EXCEPT ![h] = f.H]
        /\ vpc' = [vpc EXCEPT ![p] = IF f.found THEN "vn_rele" ELSE "alloc"]
    /\ UNCHANGED <<v_count, vlk, vloc>>

\* nlm_vhold_get(), kmem_cache_alloc() and the second critical section.
VhGetInsert(p) ==
    /\ vpc[p] = "alloc"
    /\ LET h == vloc[p].host
           vp == vloc[p].vp
           r == nlm_vhold_get_insert(vh[h], vp) IN
        /\ vh' = [vh EXCEPT ![h] = r.H]
        /\ v_count' = IF r.created THEN [v_count EXCEPT ![vp] = @ + 1]
                       ELSE v_count
        /\ vloc' = [vloc EXCEPT ![p].created = r.created,
                                ![p].second = TRUE,
                                ![p].holds = IF r.created THEN @ + 1 ELSE @]
    /\ vpc' = [vpc EXCEPT ![p] = "vn_rele"]
    /\ UNCHANGED vlk

\* nlm_fh_to_vhold(), the VN_RELE() after nlm_vhold_get().
VhVnRele(p) ==
    /\ vpc[p] = "vn_rele"
    /\ v_count' = [v_count EXCEPT ![vloc[p].vp] = @ - 1]
    /\ vloc' = [vloc EXCEPT ![p].holds = @ - 1]
    /\ vpc' = [vpc EXCEPT ![p] = "got"]
    /\ UNCHANGED <<vh, vlk>>

\* What a handler does to the file while it has the vhold: it sets or clears
\* a lock or a share of its host.
VhLockOp(p, set) ==
    /\ vpc[p] = "got"
    /\ vlk' = IF set THEN vlk \cup {<<vloc[p].host, vloc[p].vp>>}
              ELSE vlk \ {<<vloc[p].host, vloc[p].vp>>}
    /\ vlk' # vlk
    /\ UNCHANGED <<v_count, vh, vpc, vloc>>

\* nlm_vhold_release() at the end of the handler.
VhRelease(p) ==
    /\ vpc[p] = "got"
    /\ vh' = [vh EXCEPT ![vloc[p].host][vloc[p].vp].nv_refcnt = @ - 1]
    /\ vpc' = [vpc EXCEPT ![p] = "idle"]
    /\ vloc' = [vloc EXCEPT ![p] = NoVloc]
    /\ UNCHANGED <<v_count, vlk>>

\* The vholds of host h that nlm_host_gc_vholds() destroys.
VhStale(h) == {vp \in Vnodes : vh[h][vp].live /\ ~VhBusy(h, vp)}

\* nlm_host_gc_vholds() under nh_lock: nlm_vhold_destroy() of every vhold
\* that is not busy, each with its VN_RELE().
VhGc(h) ==
    /\ VhStale(h) # {}
    /\ vh' = [vh EXCEPT ![h] =
                [vp \in Vnodes |-> IF vp \in VhStale(h) THEN NoVhold ELSE @[vp]]]
    /\ v_count' = [vp \in Vnodes |->
                     IF vp \in VhStale(h) THEN v_count[vp] - 1 ELSE v_count[vp]]
    /\ UNCHANGED <<vlk, vpc, vloc>>

(***************************************************************************)
(* The service handlers (nlm_service.c): LOCK and SHARE.                   *)
(***************************************************************************)
\* The end of the grace period, g->grace_threshold, in clock ticks.
grace_threshold == GracePeriod
\* NLM_IN_GRACE(g)
NLM_IN_GRACE == now < grace_threshold

EAGAIN == 11
ENOLCK == 46
\* An error of the lock engine other than EAGAIN and ENOLCK.
EROFS == 30

\* enum nlm4_stats
Nlm4Stats == {"nlm4_granted", "nlm4_denied", "nlm4_denied_nolocks",
              "nlm4_blocked", "nlm4_denied_grace_period", "nlm4_deadlck",
              "nlm4_rofs", "nlm4_stale_fh", "nlm4_fbig", "nlm4_failed"}

NoArg == [op |-> "none", host |-> NULL, fh |-> 0, reclaim |-> 0,
          block |-> FALSE, grant_cb |-> FALSE, exclusive |-> FALSE,
          state |-> 0, cookie |-> 0]
NoHloc == [status |-> "none", error |-> 0, do_blocking |-> FALSE,
           do_mon_req |-> FALSE, in_grace |-> FALSE, reserved |-> FALSE,
           slreq_unreg |-> FALSE, intr |-> FALSE, replied |-> FALSE,
           vp |-> NULL, cancelled |-> FALSE, rpc_ok |-> TRUE, ncb |-> 0,
           cb |-> NoArg]
NoLkHost == [known |-> FALSE, flags |-> {}, state |-> 0, mon_fail |-> FALSE]

SvInit ==
    /\ hpc = [p \in Procs |-> "idle"]
    /\ harg = [p \in Procs |-> NoArg]
    /\ hloc = [p \in Procs |-> NoHloc]
    /\ lk_host = [h \in VhHosts |-> NoLkHost]
    /\ slreqs = {}
    /\ vshr = {}
    /\ loclk = {}

\* A handler thread that serves no request.
NoEnt == [pc |-> "idle", op |-> "none", msg |-> FALSE, down |-> FALSE,
          nosysid |-> FALSE, status |-> "none", rpc |-> "none"]

EntInit ==
    /\ ent = [p \in Procs |-> NoEnt]
    /\ en_foreign = {}

\* No CANCEL has been served yet.
NoCancel == [op |-> "none"]

CaInit ==
    /\ ca_slreqs = <<>>
    /\ ca_res = NoCancel

\* No thread is in nlm_host_notify_server().
NoWalk == [pc |-> "idle", state |-> 0, old |-> 0, nvp |-> NULL, freed |-> FALSE]

NwInit ==
    /\ nw = NoWalk
    /\ ngc = NULL

\* A handler that is not in nlm_block().
NoSq == [pc |-> "idle",
         flp |-> [l_start |-> 0, l_len |-> 0, l_pid |-> 0, l_type |-> "none"],
         ret |-> 0]

SqInit == sq = [p \in Procs |-> NoSq]

NoVpa == [pc |-> "idle", vp |-> NULL, host |-> NULL, old |-> 0, n |-> 0,
          freed |-> FALSE]
VpaInit == vpa = NoVpa

\* nlm_svc_starting() has returned 0: the service is up.
NoSta == [pc |-> "returned", error |-> 0, ret |-> 0, failed |-> FALSE,
          nsm |-> TRUE, nsm_fini |-> 0]
StaInit == sta = NoSta

SrvInit ==
    /\ VhInit /\ SvInit /\ NsmInit /\ LoInit /\ MoInit /\ EntInit /\ CaInit
    /\ NwInit /\ SqInit /\ VpaInit /\ StaInit

\* A faulty grace check: it does not let reclaims through.
nlm_grace_denies_reclaim(reclaim, in_grace) == in_grace

\* The grace check of nlm_do_lock() and nlm_do_share().
nlm_grace_denies(reclaim, in_grace) == reclaim = 0 /\ in_grace

\* A faulty status switch: it blocks also when the client did not ask for it.
nlm_do_lock_status_noblockflag(error, block, grant_cb, reserved) ==
    CASE error = 0 ->
           [status |-> "nlm4_granted", do_blocking |-> FALSE, do_mon_req |-> TRUE]
      [] error = EAGAIN ->
           IF ~grant_cb
           THEN [status |-> "nlm4_denied", do_blocking |-> FALSE,
                 do_mon_req |-> FALSE]
           ELSE IF ~reserved
           THEN [status |-> "nlm4_denied_nolocks", do_blocking |-> FALSE,
                 do_mon_req |-> FALSE]
           ELSE [status |-> "nlm4_blocked", do_blocking |-> TRUE,
                 do_mon_req |-> TRUE]
      [] error = ENOLCK ->
           [status |-> "nlm4_denied_nolocks", do_blocking |-> FALSE,
            do_mon_req |-> FALSE]
      [] OTHER ->
           [status |-> "nlm4_denied", do_blocking |-> FALSE, do_mon_req |-> FALSE]

\* The switch on the result of the first, non blocking, F_SETLK in
\* nlm_do_lock(); reserved is what svc_reserve_thread() returns.
nlm_do_lock_status(error, block, grant_cb, reserved) ==
    CASE error = 0 ->
           [status |-> "nlm4_granted", do_blocking |-> FALSE, do_mon_req |-> TRUE]
      [] error = EAGAIN ->
           IF ~block \/ ~grant_cb
           THEN [status |-> "nlm4_denied", do_blocking |-> FALSE,
                 do_mon_req |-> FALSE]
           ELSE IF ~reserved
           THEN [status |-> "nlm4_denied_nolocks", do_blocking |-> FALSE,
                 do_mon_req |-> FALSE]
           ELSE [status |-> "nlm4_blocked", do_blocking |-> TRUE,
                 do_mon_req |-> TRUE]
      [] error = ENOLCK ->
           [status |-> "nlm4_denied_nolocks", do_blocking |-> FALSE,
            do_mon_req |-> FALSE]
      [] OTHER ->
           [status |-> "nlm4_denied", do_blocking |-> FALSE, do_mon_req |-> FALSE]

\* The local lock engine: a lock of host h on vp conflicts with the lock of a
\* local process and with the lock of any other host.
FlkConflict(h, vp) ==
    vp \in loclk \/ \E o \in VhHosts \ {h} : <<o, vp>> \in vlk

\* What VOP_FRLOCK(F_SETLK) may return to host h for vp.
FrlockSetlk(h, vp) ==
    (IF FlkConflict(h, vp) THEN {EAGAIN} ELSE {0}) \cup {ENOLCK, EROFS}

\* What VOP_FRLOCK(F_SETLKW) may return to a sleeping request of host h for
\* vp once it returns: EINTR after it was interrupted, success when nothing
\* conflicts any more, or a failure of the engine.
FrlockSetlkw(h, vp, intr) ==
    IF intr THEN {EINTR}
    ELSE (IF FlkConflict(h, vp) THEN {} ELSE {0}) \cup {ENOLCK}

\* The key nlm_slreq_find_locked() compares: the vhold and the lock type
\* (the handlers use one range and one owner per host).
SlreqKey(a) == <<a.host, a.fh, a.exclusive>>

\* The handlers that sleep in F_SETLKW for host h on vp.
FlkSleepers(h, vp) ==
    {q \in Procs : hpc[q] = "setlkw" /\ harg[q].host = h /\ harg[q].fh = vp}

\* hloc after the engine has interrupted the sleeping requests of host h on
\* the vnodes vps.
FlkInterrupt(L, h, vps) ==
    [q \in Procs |->
        IF \E vp \in vps : q \in FlkSleepers(h, vp)
        THEN [L[q] EXCEPT !.intr = TRUE] ELSE L[q]]

\* nlm_do_lock() and nlm_do_share() from their entry to the grace check:
\* nlm_host_findcreate() and the test of NLM_IN_GRACE.
SvcStart(p, a) ==
    /\ hpc[p] = "idle" /\ vpc[p] = "idle"
    /\ a.op \in {"LOCK", "SHARE"}
    /\ harg' = [harg EXCEPT ![p] = a]
    /\ lk_host' = [lk_host EXCEPT ![a.host].known = TRUE]
    /\ IF nlm_grace_denies(a.reclaim, NLM_IN_GRACE)
       THEN /\ hloc' = [hloc EXCEPT ![p] =
                   [NoHloc EXCEPT !.status = "nlm4_denied_grace_period",
                                  !.in_grace = NLM_IN_GRACE]]
            /\ hpc' = [hpc EXCEPT ![p] =
                   IF a.op = "LOCK" THEN "reply" ELSE "release"]
       ELSE /\ hloc' = [hloc EXCEPT ![p] =
                   [NoHloc EXCEPT !.in_grace = NLM_IN_GRACE]]
            /\ hpc' = [hpc EXCEPT ![p] =
                   IF a.op = "LOCK" THEN "notify" ELSE "fh"]
    /\ UNCHANGED <<slreqs, vshr, loclk, vhVars>>

\* nlm_do_lock(): nlm_host_notify_server() when the state of the request is
\* not the state recorded for the host; it drops the host's sleeping
\* requests, locks and shares on every vnode the host has a vhold for.
SvcNotifyServer(p) ==
    /\ hpc[p] = "notify"
    /\ LET h == harg[p].host
           vps == {vp \in Vnodes : vh[h][vp].live} IN
        IF lk_host[h].state # harg[p].state
        THEN /\ lk_host' = [lk_host EXCEPT ![h].state =
                    IF harg[p].state # 0 THEN harg[p].state ELSE @]
             /\ slreqs' = {k \in slreqs : ~(k[1] = h /\ k[2] \in vps)}
             /\ vlk' = {k \in vlk : ~(k[1] = h /\ k[2] \in vps)}
             /\ vshr' = {k \in vshr : ~(k[1] = h /\ k[2] \in vps)}
             /\ hloc' = FlkInterrupt(hloc, h, vps)
        ELSE UNCHANGED <<lk_host, slreqs, vlk, vshr, hloc>>
    /\ hpc' = [hpc EXCEPT ![p] = "fh"]
    /\ UNCHANGED <<harg, loclk, v_count, vh, vpc, vloc>>

\* nlm_fh_to_vhold() up to the return of nlm_fh_to_vp(); when there is no
\* vnode nlm_do_share() and nlm_do_cancel() answer nlm4_stale_fh, and
\* nlm_do_lock() stores
\* nlm4_stale_fh in the reply and then overwrites it, at doreply, with its
\* variable status, which nothing has assigned on this path.
SvcFhToVp(p) ==
    /\ hpc[p] = "fh"
    /\ VhFhToVp(p, harg[p].host, harg[p].fh)
    /\ IF nlm_fh_to_vp(harg[p].fh) # NULL
       THEN /\ hpc' = [hpc EXCEPT ![p] = "vhold"]
            /\ UNCHANGED hloc
       ELSE IF harg[p].op \in {"SHARE", "CANCEL"}
       THEN /\ hpc' = [hpc EXCEPT ![p] = "release"]
            /\ hloc' = [hloc EXCEPT ![p].status = "nlm4_stale_fh"]
       ELSE /\ hpc' = [hpc EXCEPT ![p] = "reply"]
            /\ \E s \in Nlm4Stats \cup {"other"} :
                   hloc' = [hloc EXCEPT ![p].status = s]
    /\ UNCHANGED <<harg, lk_host, slreqs, vshr, loclk>>

\* nlm_do_lock(): the non blocking F_SETLK and the switch on its result.
SvcSetlk(p, error, reserved) ==
    /\ hpc[p] = "vhold" /\ vpc[p] = "got" /\ harg[p].op = "LOCK"
    /\ error \in FrlockSetlk(harg[p].host, vloc[p].vp)
    /\ LET r == nlm_do_lock_status(error, harg[p].block, harg[p].grant_cb,
                                   reserved) IN
        hloc' = [hloc EXCEPT ![p].status = r.status,
                             ![p].error = error,
                             ![p].reserved = reserved,
                             ![p].do_blocking = r.do_blocking,
                             ![p].do_mon_req = r.do_mon_req]
    /\ vlk' = IF error = 0 THEN vlk \cup {<<harg[p].host, vloc[p].vp>>} ELSE vlk
    /\ hpc' = [hpc EXCEPT ![p] = "reply"]
    /\ UNCHANGED <<harg, lk_host, slreqs, vshr, loclk, v_count, vh, vpc, vloc>>

\* nlm_do_share(): VOP_SHRLOCK(F_SHARE) and what follows from its result.
SvcShrlock(p, error) ==
    /\ hpc[p] = "vhold" /\ vpc[p] = "got" /\ harg[p].op = "SHARE"
    /\ error \in {0, EAGAIN}
    /\ hloc' = [hloc EXCEPT ![p].status =
                   IF error = 0 THEN "nlm4_granted" ELSE "nlm4_denied",
                            ![p].error = error]
    /\ vshr' = IF error = 0 THEN vshr \cup {<<harg[p].host, vloc[p].vp>>}
               ELSE vshr
    /\ hpc' = [hpc EXCEPT ![p] = IF error = 0 THEN "mon" ELSE "release"]
    /\ UNCHANGED <<harg, lk_host, slreqs, loclk, vhVars>>

\* Where a handler goes on after nlm_host_monitor().
AfterMon(p) == IF hloc[p].do_blocking THEN "block" ELSE "release"

\* nlm_do_lock() at doreply: the reply is sent.
SvcReply(p) ==
    /\ hpc[p] = "reply"
    /\ hloc' = [hloc EXCEPT ![p].replied = TRUE]
    /\ hpc' = [hpc EXCEPT ![p] =
          IF hloc[p].do_mon_req /\ harg[p].grant_cb THEN "mon" ELSE AfterMon(p)]
    /\ UNCHANGED <<harg, lk_host, slreqs, vshr, loclk, vhVars>>

\* A faulty nlm_host_monitor(): it does not set the flag.
nlm_host_monitor_flag_noset(H, state) ==
    [H EXCEPT !.state = IF state # 0 /\ @ = 0 THEN state ELSE @]

\* nlm_host_monitor() up to the call of statd: nh_state is recorded when it
\* was 0, and NLM_NH_MONITORED is set under nh_lock.
nlm_host_monitor_flag(H, state) ==
    [H EXCEPT !.state = IF state # 0 /\ @ = 0 THEN state ELSE @,
              !.flags = @ \cup {NLM_NH_MONITORED}]

\* The state nlm_host_monitor() is called with.
MonState(a) == IF a.op = "LOCK" THEN a.state ELSE 0

SvcMonFlag(p) ==
    /\ hpc[p] = "mon"
    /\ LET h == harg[p].host IN
        /\ lk_host' = [lk_host EXCEPT ![h] =
               nlm_host_monitor_flag(@, MonState(harg[p]))]
        /\ hpc' = [hpc EXCEPT ![p] =
               IF NLM_NH_MONITORED \in lk_host[h].flags
               THEN AfterMon(p) ELSE "mon_rpc"]
    /\ UNCHANGED <<harg, hloc, slreqs, vshr, loclk, vhVars>>

\* nlm_host_monitor(): nlm_nsm_mon() has returned; when it failed the flag
\* is cleared again.
SvcMonRpc(p, ok) ==
    /\ hpc[p] = "mon_rpc"
    /\ lk_host' = IF ok THEN [lk_host EXCEPT ![harg[p].host].mon_fail = FALSE]
                  ELSE [lk_host EXCEPT
                          ![harg[p].host].flags = @ \ {NLM_NH_MONITORED},
                          ![harg[p].host].mon_fail = TRUE]
    /\ hpc' = [hpc EXCEPT ![p] = AfterMon(p)]
    /\ UNCHANGED <<harg, hloc, slreqs, vshr, loclk, vhVars>>

\* nlm_block(): nlm_slreq_register(); a request that is registered already
\* is left to the thread that registered it.
SvcSlreqRegister(p) ==
    /\ hpc[p] = "block"
    /\ IF SlreqKey(harg[p]) \in slreqs
       THEN /\ hpc' = [hpc EXCEPT ![p] = "release"]
            /\ UNCHANGED slreqs
       ELSE /\ hpc' = [hpc EXCEPT ![p] = "setlkw"]
            /\ slreqs' = slreqs \cup {SlreqKey(harg[p])}
    /\ UNCHANGED <<harg, hloc, lk_host, vshr, loclk, vhVars>>

\* nlm_block(): VOP_FRLOCK(F_SETLKW) returns.
SvcSetlkwReturn(p, error) ==
    /\ hpc[p] = "setlkw"
    /\ error \in FrlockSetlkw(harg[p].host, vloc[p].vp, hloc[p].intr)
    /\ vlk' = IF error = 0 THEN vlk \cup {<<harg[p].host, vloc[p].vp>>} ELSE vlk
    /\ hloc' = [hloc EXCEPT ![p].error = error]
    /\ hpc' = [hpc EXCEPT ![p] = "unreg"]
    /\ UNCHANGED <<harg, lk_host, slreqs, vshr, loclk, v_count, vh, vpc, vloc>>

\* A faulty nlm_block(): it calls back whatever F_SETLKW returned.
nlm_block_after_wait_always(error) == "grant"

\* nlm_block() goes on to the call back only when F_SETLKW succeeded.
nlm_block_after_wait(error) == IF error # 0 THEN "release" ELSE "grant"

\* nlm_block(): nlm_slreq_unregister(), whose result is not looked at, and
\* the test of the F_SETLKW result.
SvcSlreqUnregister(p) ==
    /\ hpc[p] = "unreg"
    /\ slreqs' = slreqs \ {SlreqKey(harg[p])}
    /\ hpc' = [hpc EXCEPT ![p] = nlm_block_after_wait(hloc[p].error)]
    /\ UNCHANGED <<harg, hloc, lk_host, vshr, loclk, vhVars>>

\* nlm_block(): nlm_host_get_rpc() and, when it gave a handle, the GRANTED
\* call back with the cookie, the exclusive flag and the lock of the request.
SvcGrant(p, rpc_ok) ==
    /\ hpc[p] = "grant"
    /\ hloc' = IF rpc_ok
               THEN [hloc EXCEPT ![p].ncb = @ + 1, ![p].cb = harg[p]]
               ELSE [hloc EXCEPT ![p].rpc_ok = FALSE]
    /\ hpc' = [hpc EXCEPT ![p] = "release"]
    /\ UNCHANGED <<harg, lk_host, slreqs, vshr, loclk, vhVars>>

\* The end of the handler: nlm_vhold_release() and nlm_host_release(); the
\* reply of nlm_do_share() goes out when it returns.
SvcRelease(p) ==
    /\ hpc[p] = "release"
    /\ IF vpc[p] = "got" THEN VhRelease(p) ELSE UNCHANGED vhVars
    /\ hloc' = [hloc EXCEPT ![p].replied = TRUE]
    /\ hpc' = [hpc EXCEPT ![p] = "returned"]
    /\ UNCHANGED <<harg, lk_host, slreqs, vshr, loclk>>

\* The thread goes back to the service pool and waits for its next request.
SvcReturn(p) ==
    /\ hpc[p] = "returned"
    /\ hpc' = [hpc EXCEPT ![p] = "idle"]
    /\ harg' = [harg EXCEPT ![p] = NoArg]
    /\ hloc' = [hloc EXCEPT ![p] = NoHloc]
    /\ UNCHANGED <<lk_host, slreqs, vshr, loclk, vhVars>>

\* A local process locks a vnode no one has a lock on, or unlocks it.
LocalLock(vp) ==
    /\ vp \notin loclk
    /\ \A h \in VhHosts : <<h, vp>> \notin vlk
    /\ loclk' = loclk \cup {vp}
    /\ UNCHANGED <<hpc, harg, hloc, lk_host, slreqs, vshr, vhVars>>

LocalUnlock(vp) ==
    /\ vp \in loclk
    /\ loclk' = loclk \ {vp}
    /\ UNCHANGED <<hpc, harg, hloc, lk_host, slreqs, vshr, vhVars>>

(***************************************************************************)
(* The service handlers: TEST, CANCEL, UNLOCK and UNSHARE.                 *)
(***************************************************************************)
\* nlm_do_fh_to_vp(): the vnode of the file handle, held, or NULL.
nlm_do_fh_to_vp(fh) == IF fh = 0 THEN NULL ELSE fh

\* A faulty nlm_do_test(): it does not look at the grace period.
nlm_do_test_status_nograce(vp, in_grace, error, conflict) ==
    IF vp = NULL THEN "nlm4_stale_fh"
    ELSE IF error # 0 THEN "nlm4_failed"
    ELSE IF conflict THEN "nlm4_denied"
    ELSE "nlm4_granted"

\* The answer of nlm_do_test(): vp is the vnode of the file handle, error
\* the result of F_GETLK and conflict whether F_GETLK found a lock.
nlm_do_test_status(vp, in_grace, error, conflict) ==
    IF vp = NULL THEN "nlm4_stale_fh"
    ELSE IF in_grace THEN "nlm4_denied_grace_period"
    ELSE IF error # 0 THEN "nlm4_failed"
    ELSE IF conflict THEN "nlm4_denied"
    ELSE "nlm4_granted"

\* nlm_do_test() up to its out label: nlm_host_findcreate(), the vnode of
\* the file handle, the grace check and F_GETLK.
SvcTest(p, a, error) ==
    /\ hpc[p] = "idle" /\ vpc[p] = "idle"
    /\ a.op = "TEST"
    /\ error \in {0, ENOLCK}
    /\ harg' = [harg EXCEPT ![p] = a]
    /\ lk_host' = [lk_host EXCEPT ![a.host].known = TRUE]
    /\ LET vp == nlm_do_fh_to_vp(a.fh)
           status == nlm_do_test_status(vp, NLM_IN_GRACE, error,
                                        vp # NULL /\ FlkConflict(a.host, vp)) IN
        /\ hloc' = [hloc EXCEPT ![p] =
               [NoHloc EXCEPT !.status = status, !.in_grace = NLM_IN_GRACE,
                              !.vp = vp]]
        /\ v_count' = IF vp = NULL THEN v_count
                      ELSE [v_count EXCEPT ![vp] = @ + 1]
    /\ hpc' = [hpc EXCEPT ![p] = "out"]
    /\ UNCHANGED <<slreqs, vshr, loclk, vh, vlk, vpc, vloc>>

\* nlm_do_unlock() and nlm_do_unshare() up to their out label:
\* nlm_host_find(), the grace check, nlm_fh_to_vp() and the F_UNLCK or
\* F_UNSHARE, whose error is ignored.  Without a host they return at once.
SvcUnlock(p, a) ==
    /\ hpc[p] = "idle" /\ vpc[p] = "idle"
    /\ a.op \in {"UNLOCK", "UNSHARE"}
    /\ harg' = [harg EXCEPT ![p] = a]
    /\ LET vp == nlm_fh_to_vp(a.fh) IN
        IF ~lk_host[a.host].known
        THEN /\ hloc' = [hloc EXCEPT ![p] =
                    [NoHloc EXCEPT !.status = "nlm4_denied_nolocks",
                                   !.in_grace = NLM_IN_GRACE,
                                   !.replied = TRUE]]
             /\ hpc' = [hpc EXCEPT ![p] = "returned"]
             /\ UNCHANGED <<v_count, vlk, vshr>>
        ELSE IF NLM_IN_GRACE \/ vp = NULL
        THEN /\ hloc' = [hloc EXCEPT ![p] =
                    [NoHloc EXCEPT !.status =
                        IF NLM_IN_GRACE THEN "nlm4_denied_grace_period"
                        ELSE "nlm4_stale_fh",
                                   !.in_grace = NLM_IN_GRACE]]
             /\ hpc' = [hpc EXCEPT ![p] = "out"]
             /\ UNCHANGED <<v_count, vlk, vshr>>
        ELSE /\ hpc' = [hpc EXCEPT ![p] = "out"]
             /\ v_count' = [v_count EXCEPT ![vp] = @ + 1]
             /\ IF a.op = "UNLOCK"
                THEN /\ vlk' = vlk \ {<<a.host, vp>>}
                     /\ hloc' = [FlkInterrupt(hloc, a.host, {vp}) EXCEPT ![p] =
                            [NoHloc EXCEPT !.status = "nlm4_granted", !.vp = vp]]
                     /\ UNCHANGED vshr
                ELSE /\ vshr' = vshr \ {<<a.host, vp>>}
                     /\ hloc' = [hloc EXCEPT ![p] =
                            [NoHloc EXCEPT !.status = "nlm4_granted", !.vp = vp]]
                     /\ UNCHANGED vlk
    /\ UNCHANGED <<lk_host, slreqs, loclk, vh, vpc, vloc>>

\* nlm_do_test(), nlm_do_unlock() and nlm_do_unshare() from their out label:
\* the answer, VN_RELE() of the vnode and nlm_host_release().
SvcOut(p) ==
    /\ hpc[p] = "out"
    /\ v_count' = IF hloc[p].vp = NULL THEN v_count
                  ELSE [v_count EXCEPT ![hloc[p].vp] = @ - 1]
    /\ hloc' = [hloc EXCEPT ![p].replied = TRUE, ![p].vp = NULL]
    /\ hpc' = [hpc EXCEPT ![p] = "returned"]
    /\ UNCHANGED <<harg, lk_host, slreqs, vshr, loclk, vh, vlk, vpc, vloc>>

\* nlm_do_cancel() from its entry to the grace check: nlm_host_find() and
\* the test of NLM_IN_GRACE.  Without a host it returns at once.
SvcCancelStart(p, a) ==
    /\ hpc[p] = "idle" /\ vpc[p] = "idle"
    /\ a.op = "CANCEL"
    /\ harg' = [harg EXCEPT ![p] = a]
    /\ IF ~lk_host[a.host].known
       THEN /\ hloc' = [hloc EXCEPT ![p] =
                   [NoHloc EXCEPT !.status = "nlm4_denied_nolocks",
                                  !.in_grace = NLM_IN_GRACE,
                                  !.replied = TRUE]]
            /\ hpc' = [hpc EXCEPT ![p] = "returned"]
       ELSE IF NLM_IN_GRACE
       THEN /\ hloc' = [hloc EXCEPT ![p] =
                   [NoHloc EXCEPT !.status = "nlm4_denied_grace_period",
                                  !.in_grace = TRUE]]
            /\ hpc' = [hpc EXCEPT ![p] = "release"]
       ELSE /\ hloc' = [hloc EXCEPT ![p] = NoHloc]
            /\ hpc' = [hpc EXCEPT ![p] = "fh"]
    /\ UNCHANGED <<lk_host, slreqs, vshr, loclk, vhVars>>

\* nlm_do_cancel(): nlm_slreq_unregister() of the request to cancel.
SvcCancelUnregister(p) ==
    /\ hpc[p] = "vhold" /\ vpc[p] = "got" /\ harg[p].op = "CANCEL"
    /\ slreqs' = slreqs \ {SlreqKey(harg[p])}
    /\ hloc' = [q \in Procs |->
          IF q = p
          THEN [hloc[p] EXCEPT !.slreq_unreg = SlreqKey(harg[p]) \in slreqs]
          ELSE IF hpc[q] = "setlkw" /\ SlreqKey(harg[q]) = SlreqKey(harg[p])
          THEN [hloc[q] EXCEPT !.cancelled = TRUE]
          ELSE hloc[q]]
    /\ hpc' = [hpc EXCEPT ![p] = "unlck"]
    /\ UNCHANGED <<harg, lk_host, vshr, loclk, vhVars>>

\* The answer of nlm_do_cancel().
nlm_do_cancel_status(slreq_unreg, error) ==
    IF ~slreq_unreg /\ error # 0 THEN "nlm4_denied" ELSE "nlm4_granted"

\* nlm_do_cancel(): the F_UNLCK and the answer.
SvcCancelUnlock(p, error) ==
    /\ hpc[p] = "unlck"
    /\ error \in {0, ENOLCK}
    /\ vlk' = vlk \ {<<harg[p].host, vloc[p].vp>>}
    /\ hloc' = [FlkInterrupt(hloc, harg[p].host, {vloc[p].vp}) EXCEPT
                   ![p].status = nlm_do_cancel_status(hloc[p].slreq_unreg, error),
                   ![p].error = error]
    /\ hpc' = [hpc EXCEPT ![p] = "release"]
    /\ UNCHANGED <<harg, lk_host, slreqs, vshr, loclk, v_count, vh, vpc, vloc>>

(***************************************************************************)
(* The client sleeping locks on their own.                                 *)
(***************************************************************************)
SlInit ==
    /\ nlm_sysid_bmap = SysidInitBmap
    /\ nlm_sysid_nidx = SysidInitNidx
    /\ sy_out = [s \in 0..LM_SYSID_MAX |-> 0]
    /\ sy_ret = LM_NOSYSID
    /\ SlockInit
    /\ RegInit
    /\ SrvInit

SlOthers == <<sysidVars, syVars, regVars, srvVars, ownVars>>

SlRegister == \E e \in Slocks, h \in SlHosts, l \in SlLocks :
                  SlockRegister(e, h, l) /\ UNCHANGED SlOthers
SlWaitEnter == \E e \in Slocks : SlockWaitEnter(e) /\ UNCHANGED SlOthers
SlWaitNow == \E e \in Slocks : SlockWaitNow(e) /\ UNCHANGED SlOthers
SlWaitTimeout == \E e \in Slocks : SlockWaitTimeout(e) /\ UNCHANGED SlOthers
SlWaitSignal == \E e \in Slocks : SlockWaitSignal(e) /\ UNCHANGED SlOthers
SlWaitFinish == \E e \in Slocks : SlockWaitFinish(e) /\ UNCHANGED SlOthers
SlWaitAgain == \E e \in Slocks : SlockWaitAgain(e) /\ UNCHANGED SlOthers
SlUnregister == \E e \in Slocks : SlockUnregister(e) /\ UNCHANGED SlOthers
SlGrant == \E h \in SlHosts, l \in SlLocks : SlockGrant(h, l) /\ UNCHANGED SlOthers
SlCancelHost == \E h \in SlHosts : SlockCancelHost(h) /\ UNCHANGED SlOthers

SlNext ==
    \/ SlRegister
    \/ SlWaitEnter
    \/ SlWaitNow
    \/ SlWaitTimeout
    \/ SlWaitSignal
    \/ SlWaitFinish
    \/ SlWaitAgain
    \/ SlUnregister
    \/ SlGrant
    \/ SlCancelHost

SpecSlock == SlInit /\ [][SlNext]_vars

\* C7 as stated: GRANTED and CANCELLED are both terminal, no step changes the
\* state of an entry that is GRANTED or CANCELLED.
C7_BothTerminal ==
    [][\A e \in Slocks :
        (nsl[e].live /\ nsl'[e].live
         /\ nsl[e].state \in {NLM_SL_GRANTED, NLM_SL_CANCELLED})
        => nsl'[e].state = nsl[e].state]_vars

\* C7 amended: CANCELLED is terminal and nlm_slock_grant changes BLOCKED
\* entries only, but nlm_host_cancel_slocks turns a GRANTED entry of its host
\* into CANCELLED; a waiter that examines its entry after a cancel observes
\* CANCELLED whether or not a grant came first, and observes the grant when
\* no cancel came before it looked.
C7_CancelledTerminal ==
    /\ [][\A e \in Slocks :
            (nsl[e].live /\ nsl'[e].live) =>
                /\ nsl[e].state = NLM_SL_CANCELLED
                     => nsl'[e].state = NLM_SL_CANCELLED
                /\ nsl[e].state = NLM_SL_GRANTED
                     => nsl'[e].state \in {NLM_SL_GRANTED, NLM_SL_CANCELLED}]_vars
    /\ [](\A e \in Slocks : sl_pc[e] = "done" =>
            /\ sl_read[e].cancelled => sl_read[e].state = NLM_SL_CANCELLED
            /\ (~sl_read[e].cancelled /\ sl_read[e].granted)
                  => sl_read[e].state = NLM_SL_GRANTED)

\* An entry was granted, then cancelled, and its waiter then saw CANCELLED.
C7_Witness ==
    \E e \in Slocks :
        /\ sl_pc[e] = "done"
        /\ sl_read[e].state = NLM_SL_CANCELLED
        /\ sl_read[e].granted
        /\ sl_read[e].cancelled
        /\ sl_err[e] = EINTR

\* C8: whenever the state nlm_slock_wait examines under g->lock is GRANTED it
\* returns 0, also when cv_timedwait_sig had already ended by timeout or by a
\* signal before the grant arrived.
C8_LateGrantHonoured ==
    \A e \in Slocks :
        (sl_pc[e] = "done" /\ sl_read[e].state = NLM_SL_GRANTED) => sl_err[e] = 0

\* The wait timed out, and the grant came before the waiter took g->lock.
C8_Witness ==
    \E e \in Slocks :
        /\ sl_pc[e] = "done"
        /\ sl_cvres[e] = -1
        /\ sl_read[e].state = NLM_SL_GRANTED
        /\ sl_err[e] = 0

\* C9: nlm_slock_wait on a registered entry that was granted before the wait
\* examined it (and not cancelled) returns 0; an entry is granted at most once, and
\* nlm_slock_grant returns 0 exactly when a BLOCKED entry equal to its
\* arguments exists, so a repeated grant of the same entry returns ENOENT.
C9_GrantOnce ==
    /\ \A e \in Slocks :
        /\ sl_ngrant[e] <= 1
        /\ (sl_pc[e] = "done" /\ sl_read[e].granted /\ ~sl_read[e].cancelled)
              => sl_err[e] = 0
    /\ sl_grant.ret = 0 <=> sl_grant.blocked # {}
    /\ sl_grant.ret \in {0, ENOENT}

\* The entry was granted and its wait returned 0; a second grant with the
\* same arguments found the entry, no longer BLOCKED, and returned ENOENT.
C9_Witness ==
    \E e \in Slocks :
        /\ sl_pc[e] = "done"
        /\ sl_ngrant[e] = 1
        /\ sl_read[e].granted
        /\ sl_err[e] = 0
        /\ sl_grant.matched = {e}
        /\ sl_grant.blocked = {}
        /\ sl_grant.ret = ENOENT

\* C10: once nlm_host_cancel_slocks has run on the host of a registered
\* entry, an nlm_slock_wait that examines the entry afterwards returns EINTR
\* whatever ended the wait, and a
\* step that cancels an entry leaves the entries of other hosts as they were.
C10_CancelGivesEintr ==
    /\ [](\A e \in Slocks :
            (sl_pc[e] = "done" /\ sl_read[e].cancelled) => sl_err[e] = EINTR)
    /\ [][\A e \in Slocks :
            (nsl[e].live /\ nsl[e].state # NLM_SL_CANCELLED
             /\ nsl'[e].state = NLM_SL_CANCELLED)
            => \A o \in Slocks : nsl[o].host # nsl[e].host => nsl'[o] = nsl[o]]_vars

\* A cancelled entry whose wait had timed out returned EINTR, while the entry
\* of another host is still BLOCKED.
C10_Witness ==
    \E e, o \in Slocks :
        /\ sl_pc[e] = "done"
        /\ sl_read[e].cancelled
        /\ sl_cvres[e] = -1
        /\ sl_err[e] = EINTR
        /\ nsl[o].live
        /\ nsl[o].host # nsl[e].host
        /\ nsl[o].state = NLM_SL_BLOCKED

SyInit ==
    /\ nlm_sysid_bmap = SysidInitBmap
    /\ nlm_sysid_nidx = SysidInitNidx
    /\ sy_out = [s \in 0..LM_SYSID_MAX |-> 0]
    /\ sy_ret = LM_NOSYSID
    /\ SlockInit
    /\ RegInit
    /\ SrvInit

SyAlloc ==
    LET r == nlm_sysid_alloc(nlm_sysid_bmap, nlm_sysid_nidx) IN
    /\ nlm_sysid_bmap' = r.bmap
    /\ nlm_sysid_nidx' = r.nidx
    /\ sy_ret' = r.ret
    /\ sy_out' = IF r.ret \in DOMAIN sy_out
                 THEN [sy_out EXCEPT ![r.ret] = @ + 1]
                 ELSE sy_out
    /\ UNCHANGED <<slockVars, regVars, srvVars, ownVars>>

SyFree ==
    \E s \in LM_SYSID..LM_SYSID_MAX :
        /\ sy_out[s] > 0
        /\ s \in nlm_sysid_bmap
        /\ nlm_sysid_bmap' = nlm_sysid_free(nlm_sysid_bmap, s)
        /\ sy_out' = [sy_out EXCEPT ![s] = @ - 1]
        /\ UNCHANGED <<nlm_sysid_nidx, sy_ret, slockVars, regVars, srvVars, ownVars>>

SyNext == SyAlloc \/ SyFree

SpecSysid == SyInit /\ [][SyNext]_vars

\* C3: every sysid nlm_sysid_alloc returns, other than LM_NOSYSID, lies in
\* LM_SYSID..LM_SYSID_MAX (so it is never 0), and no sysid is handed out a
\* second time before it has been freed, wherever the cursor stands.
C3_SysidInRangeAndUnique ==
    /\ sy_ret # LM_NOSYSID => sy_ret \in LM_SYSID..LM_SYSID_MAX
    /\ sy_ret # 0
    /\ sy_out[0] = 0
    /\ \A s \in LM_SYSID..LM_SYSID_MAX : sy_out[s] <= 1

\* The cursor has wrapped: LM_SYSID was handed out again while LM_SYSID_MAX,
\* allocated before it, is still held.
C3_Witness ==
    /\ sy_ret = LM_SYSID
    /\ sy_out[LM_SYSID] = 1
    /\ sy_out[LM_SYSID_MAX] = 1
    /\ nlm_sysid_nidx = LM_SYSID + 1

(***************************************************************************)
(* The host registry: handlers, garbage collector and clock.               *)
(***************************************************************************)
Init ==
    /\ nlm_sysid_bmap = SysidInitBmap
    /\ nlm_sysid_nidx = SysidInitNidx
    /\ sy_out = [s \in 0..LM_SYSID_MAX |-> 0]
    /\ sy_ret = LM_NOSYSID
    /\ SlockInit
    /\ RegInit
    /\ SrvInit

RegOthers == <<syVars, slockVars, srvVars, ownVars>>

\* One handler thread at a time, with all it can do to a host, beside the
\* garbage collector, the clock and the shutdown.
Handlers == {"p1"}

DoHostFind == \E p \in Handlers, c \in Callers : HostFind(p, c) /\ UNCHANGED RegOthers
DoHostFindBySysid == \E p \in Handlers, s \in Sysids :
                         HostFindBySysid(p, s) /\ UNCHANGED RegOthers
DoFindCreateLookup == \E p \in Handlers, c \in Callers :
                          FindCreateLookup(p, c) /\ UNCHANGED RegOthers
DoFindCreateAlloc == \E p \in Handlers : FindCreateAlloc(p) /\ UNCHANGED RegOthers
DoFindCreateInsert == \E p \in Handlers : FindCreateInsert(p) /\ UNCHANGED RegOthers
DoVholdGet == \E p \in Handlers : VholdGet(p) /\ UNCHANGED RegOthers
DoVholdRelease == \E p \in Handlers, op \in BOOLEAN :
                      VholdRelease(p, op) /\ UNCHANGED RegOthers
DoClientLockOp == \E p \in Handlers : ClientLockOp(p) /\ UNCHANGED RegOthers
DoHostRelease == \E p \in Handlers : HostRelease(p) /\ UNCHANGED RegOthers
DoTick == Tick /\ UNCHANGED RegOthers
DoGcWake == GcWake /\ UNCHANGED RegOthers
DoGcScan == GcScan /\ UNCHANGED RegOthers
DoGcExamine == GcExamine /\ UNCHANGED RegOthers
DoGcRecheck == GcRecheck /\ UNCHANGED RegOthers
DoGcDestroy == \E ok \in BOOLEAN : GcDestroy(ok) /\ UNCHANGED RegOthers
DoSvcStop == SvcStop /\ UNCHANGED RegOthers
DoStopWaitGc == StopWaitGc /\ UNCHANGED RegOthers
DoStopSweep == StopSweep /\ UNCHANGED RegOthers
DoStopDrain == StopDrain /\ UNCHANGED RegOthers
DoStopUnregTree == StopUnregTree /\ UNCHANGED RegOthers
DoStopUnregHash == StopUnregHash /\ UNCHANGED RegOthers
DoStopUnregIdle == StopUnregIdle /\ UNCHANGED RegOthers
DoStopDestroy == StopDestroy /\ UNCHANGED RegOthers

Next ==
    \/ DoHostFind
    \/ DoHostFindBySysid
    \/ DoFindCreateLookup
    \/ DoFindCreateAlloc
    \/ DoFindCreateInsert
    \/ DoVholdGet
    \/ DoVholdRelease
    \/ DoClientLockOp
    \/ DoHostRelease
    \/ DoTick
    \/ DoGcWake
    \/ DoGcScan
    \/ DoGcExamine
    \/ DoGcRecheck
    \/ DoGcDestroy
    \/ DoSvcStop
    \/ DoStopWaitGc
    \/ DoStopSweep
    \/ DoStopDrain
    \/ DoStopUnregTree
    \/ DoStopUnregHash
    \/ DoStopUnregIdle
    \/ DoStopDestroy

Spec == Init /\ [][Next]_vars

\* The hosts the sysid hash holds.
HashSet == {g.hosts_hash[s] : s \in Sysids} \ {NULL}

\* C1: every registered host is referenced if and only if it is absent from
\* the idle list, an unreferenced host is on the list exactly once, and its
\* idle timeout has been stamped.
C1_IdleIffUnreferenced ==
    \A h \in g.hosts_tree :
        /\ nh[h].refs > 0 <=> IdleCount(RegR, h) = 0
        /\ nh[h].refs = 0 => /\ IdleCount(RegR, h) = 1
                             /\ nh[h].idle_timeout >= IdlePeriod

\* C2: when the GC thread unregisters a host, the host has no reference, its
\* idle timeout is not in the future, it has no vhold, and the local lock
\* engine holds no lock or share for its sysid.
C2_GcUnregistersOnlyUnused ==
    [][(gc.pc = "recheck" /\ gc'.pc = "destroy") =>
          /\ nh[gc.host].refs = 0
          /\ nh[gc.host].idle_timeout <= now
          /\ ~nh[gc.host].vhold
          /\ nh[gc.host].sysid \notin (flk.remote \cup flk.client)]_vars

\* The GC has unregistered a host while the handler was at work on a lock
\* and another host stayed registered with its locks.
C2_Witness ==
    /\ gc.pc = "destroy" /\ ~crashed
    /\ pc["p1"] \in {"held", "vheld", "rel"}
    /\ flk.remote # {}

\* C5: whenever a handler is about to take g->lock (to insert the host it
\* created or to release the host it holds), the address tree and the sysid
\* hash hold the same hosts, and each host of the tree is the one the hash
\* gives for its sysid.
C5_TreeEqualsHash ==
    (\E p \in Handlers : pc[p] \in {"fc_insert", "held", "rel"}) =>
        /\ g.hosts_tree = HashSet
        /\ \A h \in g.hosts_tree : mod_hash_find(RegR, nh[h].sysid) = h

(***************************************************************************)
(* Racing handlers: two threads looking hosts up, creating and releasing   *)
(* them, beside the garbage collector and the clock.                       *)
(***************************************************************************)
CrHostFind == \E p \in Procs, c \in Callers : HostFind(p, c) /\ UNCHANGED RegOthers
CrHostFindBySysid == \E p \in Procs, s \in Sysids :
                         HostFindBySysid(p, s) /\ UNCHANGED RegOthers
CrFindCreateLookup == \E p \in Procs, c \in Callers :
                          FindCreateLookup(p, c) /\ UNCHANGED RegOthers
CrFindCreateAlloc == \E p \in Procs : FindCreateAlloc(p) /\ UNCHANGED RegOthers
CrFindCreateInsert == \E p \in Procs : FindCreateInsert(p) /\ UNCHANGED RegOthers
CrFindCreateDiscard == \E p \in Procs : FindCreateDiscard(p) /\ UNCHANGED RegOthers
CrHostRelease == \E p \in Procs : HostRelease(p) /\ UNCHANGED RegOthers

CrNext ==
    \/ CrHostFind
    \/ CrHostFindBySysid
    \/ CrFindCreateLookup
    \/ CrFindCreateAlloc
    \/ CrFindCreateInsert
    \/ CrFindCreateDiscard
    \/ CrHostRelease
    \/ DoTick
    \/ DoGcWake
    \/ DoGcScan
    \/ DoGcExamine
    \/ DoGcRecheck
    \/ DoGcDestroy

SpecCreate == Init /\ [][CrNext]_vars

(***************************************************************************)
(* Notifications: two threads that create hosts and deliver NOTIFY1 for    *)
(* them, and the reclaimer threads they start.                             *)
(***************************************************************************)
NsmStates == {1}

\* The peers that call here: one host, from two ports.
RcCallers == {c \in Callers : c.netid = "tcp"}

RcFindCreateLookup == \E p \in Procs, c \in RcCallers :
                          FindCreateLookup(p, c) /\ UNCHANGED RegOthers

RcNotify1Find == \E p \in Procs, s \in Sysids, state \in NsmStates :
                     Notify1Find(p, s, state) /\ UNCHANGED RegOthers
RcNotify1Server == \E p \in Procs : Notify1Server(p) /\ UNCHANGED RegOthers
RcNotifyClientLock == \E p \in Procs : NotifyClientLock(p) /\ UNCHANGED RegOthers
RcNotifyClientStore == \E p \in Procs : NotifyClientStore(p) /\ UNCHANGED RegOthers
RcNotifyClientSpawn == \E p \in Procs : NotifyClientSpawn(p) /\ UNCHANGED RegOthers
RcReclaimerClear == \E h \in HostRecs : ReclaimerClear(h) /\ UNCHANGED RegOthers
RcReclaimerRelease == \E h \in HostRecs : ReclaimerRelease(h) /\ UNCHANGED RegOthers

RcNext ==
    \/ RcFindCreateLookup
    \/ CrFindCreateAlloc
    \/ CrFindCreateInsert
    \/ CrFindCreateDiscard
    \/ CrHostRelease
    \/ RcNotify1Find
    \/ RcNotify1Server
    \/ RcNotifyClientLock
    \/ RcNotifyClientStore
    \/ RcNotifyClientSpawn
    \/ RcReclaimerClear
    \/ RcReclaimerRelease

SpecReclaim == Init /\ [][RcNext]_vars

\* The calls of nlm_host_notify_client() on host h that have set
\* NLM_NH_RECLAIM and not yet started their reclaimer.
ReclaimStarting(h) ==
    Cardinality({p \in Procs : pc[p] \in {"nc_store", "nc_spawn"} /\ loc[p].host = h})

SysidsInUse == {nh[h].sysid : h \in {x \in HostRecs : nh[x].live}} \ {LM_NOSYSID}

VhOthers == <<sysidVars, syVars, slockVars, regVars, svVars, ownVars>>

VFhToVp == \E p \in Procs, h \in VhHosts, fh \in Fhs :
               VhFhToVp(p, h, fh) /\ UNCHANGED VhOthers
VGetFind == \E p \in Procs : VhGetFind(p) /\ UNCHANGED VhOthers
VGetInsert == \E p \in Procs : VhGetInsert(p) /\ UNCHANGED VhOthers
VVnRele == \E p \in Procs : VhVnRele(p) /\ UNCHANGED VhOthers
VLockOp == \E p \in Procs, set \in BOOLEAN : VhLockOp(p, set) /\ UNCHANGED VhOthers
VRelease == \E p \in Procs : VhRelease(p) /\ UNCHANGED VhOthers
VGc == \E h \in VhHosts : VhGc(h) /\ UNCHANGED VhOthers

VhNext ==
    \/ VFhToVp
    \/ VGetFind
    \/ VGetInsert
    \/ VVnRele
    \/ VLockOp
    \/ VRelease
    \/ VGc

SpecVhold == Init /\ [][VhNext]_vars

\* The handlers between nlm_fh_to_vp() and the VN_RELE() of nlm_fh_to_vhold().
VhInFlight(vp) == {p \in Procs : vpc[p] \in {"vp_held", "alloc", "vn_rele"}
                                  /\ vloc[p].vp = vp}
\* The hosts that have a vhold for vp.
VhHolders(vp) == {h \in VhHosts : vh[h][vp].live}

\* C12: the holds NLM has on a vnode are one per vhold for it, over all hosts,
\* plus one per handler in flight on it; a returned nlm_fh_to_vhold has left
\* one hold behind when it created the vhold and none when it found one,
\* also when two handlers raced; the collector drops exactly one hold for
\* each vhold it destroys; and the vhold a handler got is there with a
\* reference of the handler.
C12_OneHoldPerVhold ==
    /\ [](\A vp \in Vnodes :
            v_count[vp] = Cardinality(VhHolders(vp)) + Cardinality(VhInFlight(vp)))
    /\ [](\A p \in Procs : vpc[p] = "got" =>
            /\ vloc[p].holds = IF vloc[p].created THEN 1 ELSE 0
            /\ vh[vloc[p].host][vloc[p].vp].live
            /\ vh[vloc[p].host][vloc[p].vp].nv_refcnt >= 1)
    /\ [][\A vp \in Vnodes :
            vpc' = vpc =>
              v_count[vp] - v_count'[vp] =
                Cardinality(VhHolders(vp)) - Cardinality(VhHolders(vp)')]_vars

\* Two handlers raced for the vhold of one vnode at one host: one created it,
\* the other found it, and the vnode has the one hold of the vhold; and a
\* second host has a vhold for the same vnode.
C12_Witness ==
    /\ vpc["p1"] = "got" /\ vpc["p2"] = "got"
    /\ vloc["p1"].host = vloc["p2"].host
    /\ vloc["p1"].vp = vloc["p2"].vp
    /\ vloc["p1"].created /\ ~vloc["p2"].created /\ vloc["p2"].second
    /\ vh[vloc["p1"].host][vloc["p1"].vp].nv_refcnt = 2
    /\ v_count[vloc["p1"].vp] = 2
    /\ Cardinality(VhHolders(vloc["p1"].vp)) = 2

(***************************************************************************)
(* LOCK and SHARE requests: one handler thread, the lock engine, the vhold *)
(* collector and the clock.                                                *)
(***************************************************************************)
LkOthers == <<sysidVars, syVars, slockVars, regVars, ownVars>>

\* The requests the handlers are given.
LkHosts == {1}
LkFhs == {0, 1, MaxVnodes}
LockArgs ==
    {[op |-> "LOCK", host |-> h, fh |-> fh, reclaim |-> r, block |-> b,
      grant_cb |-> c, exclusive |-> TRUE, state |-> 1, cookie |-> 1] :
        h \in LkHosts, fh \in LkFhs, r \in {0, 1}, b \in BOOLEAN, c \in BOOLEAN}
ShareArgs ==
    {[NoArg EXCEPT !.op = "SHARE", !.host = h, !.fh = fh, !.reclaim = r] :
        h \in LkHosts, fh \in LkFhs, r \in {0, 1}}

LkStart == \E p \in Handlers, a \in LockArgs \cup ShareArgs :
               SvcStart(p, a) /\ UNCHANGED LkOthers
LkNotifyServer == \E p \in Handlers : SvcNotifyServer(p) /\ UNCHANGED LkOthers
LkFhToVp == \E p \in Handlers : SvcFhToVp(p) /\ UNCHANGED LkOthers
LkVholdFind == \E p \in Handlers :
                   VhGetFind(p) /\ UNCHANGED <<svVars, LkOthers>>
LkVholdInsert == \E p \in Handlers :
                     VhGetInsert(p) /\ UNCHANGED <<svVars, LkOthers>>
LkVnRele == \E p \in Handlers : VhVnRele(p) /\ UNCHANGED <<svVars, LkOthers>>
LkSetlk == \E p \in Handlers, error \in {0, EAGAIN, ENOLCK, EROFS},
              reserved \in BOOLEAN :
               SvcSetlk(p, error, reserved) /\ UNCHANGED LkOthers
LkShrlock == \E p \in Handlers, error \in {0, EAGAIN} :
                 SvcShrlock(p, error) /\ UNCHANGED LkOthers
LkReply == \E p \in Handlers : SvcReply(p) /\ UNCHANGED LkOthers
LkMonFlag == \E p \in Handlers : SvcMonFlag(p) /\ UNCHANGED LkOthers
LkMonRpc == \E p \in Handlers, ok \in BOOLEAN : SvcMonRpc(p, ok) /\ UNCHANGED LkOthers
LkSlreqRegister == \E p \in Handlers : SvcSlreqRegister(p) /\ UNCHANGED LkOthers
LkSetlkwReturn == \E p \in Handlers, error \in {0, EINTR, ENOLCK} :
                      SvcSetlkwReturn(p, error) /\ UNCHANGED LkOthers
LkSlreqUnregister == \E p \in Handlers : SvcSlreqUnregister(p) /\ UNCHANGED LkOthers
LkGrant == \E p \in Handlers, rpc_ok \in BOOLEAN :
               SvcGrant(p, rpc_ok) /\ UNCHANGED LkOthers
LkRelease == \E p \in Handlers : SvcRelease(p) /\ UNCHANGED LkOthers
LkReturn == \E p \in Handlers : SvcReturn(p) /\ UNCHANGED LkOthers
LkLocalLock == \E vp \in LkFhs \ {0} : LocalLock(vp) /\ UNCHANGED LkOthers
LkLocalUnlock == \E vp \in LkFhs \ {0} : LocalUnlock(vp) /\ UNCHANGED LkOthers
LkGc == \E h \in VhHosts : VhGc(h) /\ UNCHANGED <<svVars, LkOthers>>

LkNext ==
    \/ LkStart
    \/ LkNotifyServer
    \/ LkFhToVp
    \/ LkVholdFind
    \/ LkVholdInsert
    \/ LkVnRele
    \/ LkSetlk
    \/ LkShrlock
    \/ LkReply
    \/ LkMonFlag
    \/ LkMonRpc
    \/ LkSlreqRegister
    \/ LkSetlkwReturn
    \/ LkSlreqUnregister
    \/ LkGrant
    \/ LkRelease
    \/ LkReturn
    \/ LkLocalLock
    \/ LkLocalUnlock
    \/ LkGc
    \/ DoTick

SpecLock == Init /\ [][LkNext]_vars

\* The handlers that serve a LOCK request for which the first F_SETLK has
\* returned and its result is still in their variable error.
LockTried == {p \in Handlers : harg[p].op = "LOCK" /\ vpc[p] = "got"
                               /\ hpc[p] \in {"reply", "mon", "mon_rpc", "block"}}
\* The handlers in the blocking path.
LockBlocking == {p \in Handlers : hpc[p] \in {"block", "setlkw", "unreg", "grant"}}

\* C13: the status of the LOCK reply follows from the result of the first
\* F_SETLK, the block flag, the grant call back and the thread reservation:
\* success gives granted; EAGAIN gives denied when block is false or there is
\* no grant call back, denied_nolocks when the thread cannot be reserved and
\* blocked otherwise; ENOLCK gives denied_nolocks; any other error denied.
\* The blocking path is entered only after the reply blocked was sent.
C13_LockReplyStatus ==
    /\ \A p \in LockTried :
          hloc[p].status =
            CASE hloc[p].error = 0 -> "nlm4_granted"
              [] hloc[p].error = EAGAIN /\ (~harg[p].block \/ ~harg[p].grant_cb)
                    -> "nlm4_denied"
              [] hloc[p].error = EAGAIN /\ harg[p].block /\ harg[p].grant_cb
                 /\ ~hloc[p].reserved -> "nlm4_denied_nolocks"
              [] hloc[p].error = EAGAIN /\ harg[p].block /\ harg[p].grant_cb
                 /\ hloc[p].reserved -> "nlm4_blocked"
              [] hloc[p].error = ENOLCK -> "nlm4_denied_nolocks"
              [] OTHER -> "nlm4_denied"
    /\ \A p \in LockBlocking :
          /\ hloc[p].status = "nlm4_blocked"
          /\ hloc[p].replied
          /\ harg[p].block /\ harg[p].grant_cb

\* A request was answered blocked and its handler sleeps in F_SETLKW.
C13_Witness ==
    \E p \in Handlers :
        /\ hpc[p] = "setlkw"
        /\ hloc[p].status = "nlm4_blocked"
        /\ hloc[p].replied
        /\ vloc[p].vp \in loclk

\* The requests that came without reclaim while the grace period lasted.
GraceDenied(p) ==
    /\ harg[p].op \in {"LOCK", "SHARE"}
    /\ harg[p].reclaim = 0
    /\ hloc[p].in_grace

\* C14: during the grace period a LOCK or SHARE without reclaim is answered
\* denied_grace_period and none of its handler's steps sets a lock or a
\* share, creates or touches a vhold, registers a sleeping request or changes
\* the monitoring of the host; a LOCK or SHARE with reclaim goes on from the
\* grace check as every request does outside the grace period.
C14_GraceDeniesNonReclaim ==
    /\ [](\A p \in Handlers : (hpc[p] # "idle" /\ GraceDenied(p)) =>
            /\ hloc[p].status = "nlm4_denied_grace_period"
            /\ hpc[p] \in {"reply", "release", "returned"}
            /\ vpc[p] = "idle")
    /\ [][\A p \in Handlers :
            (hpc'[p] # hpc[p] /\ (GraceDenied(p) \/ GraceDenied(p)')) =>
                /\ UNCHANGED <<vlk, vshr, vh, v_count, slreqs>>
                /\ \A h \in VhHosts :
                      /\ lk_host'[h].flags = lk_host[h].flags
                      /\ lk_host'[h].state = lk_host[h].state]_vars
    /\ [][\A p \in Handlers :
            (hpc[p] = "idle" /\ hpc'[p] # "idle"
             /\ harg'[p].op \in {"LOCK", "SHARE"}
             /\ (harg'[p].reclaim = 1 \/ ~NLM_IN_GRACE)) =>
                /\ hpc'[p] = IF harg'[p].op = "LOCK" THEN "notify" ELSE "fh"
                /\ hloc'[p].status = "none"]_vars

\* A LOCK without reclaim was refused in the grace period while the host has
\* a share from a reclaim, and its handler has returned.
C14_Witness ==
    \E p \in Handlers :
        /\ hpc[p] = "returned"
        /\ harg[p].op = "LOCK"
        /\ GraceDenied(p)
        /\ hloc[p].status = "nlm4_denied_grace_period"
        /\ hloc[p].replied
        /\ <<harg[p].host, 1>> \in vshr

\* The handlers that have returned from a LOCK request without reclaim and
\* without block, taken outside the grace period for a file handle that has
\* a vnode, whose F_SETLK succeeded.
PlainGrant == {p \in Handlers :
                 /\ hpc[p] = "returned"
                 /\ harg[p].op = "LOCK"
                 /\ harg[p].reclaim = 0 /\ ~harg[p].block
                 /\ ~hloc[p].in_grace
                 /\ nlm_fh_to_vp(harg[p].fh) # NULL
                 /\ hloc[p].error = 0}

GrFhs == {0, 1}
GrLockArgs ==
    {[op |-> "LOCK", host |-> 1, fh |-> 1, reclaim |-> r, block |-> b,
      grant_cb |-> TRUE, exclusive |-> TRUE, state |-> 0, cookie |-> 1] :
        r \in {0, 1}, b \in BOOLEAN}
    \cup {[NoArg EXCEPT !.op = "SHARE", !.host = 1, !.fh = 1, !.reclaim = 1]}
GrOps == {"TEST", "CANCEL", "UNLOCK", "UNSHARE"}
GrArgs(ops) ==
    {[NoArg EXCEPT !.op = o, !.host = h, !.fh = fh, !.exclusive = TRUE] :
        o \in ops, h \in VhHosts, fh \in GrFhs}

GrStart == \E a \in GrLockArgs : SvcStart("p1", a) /\ UNCHANGED LkOthers
GrTest == \E a \in GrArgs({"TEST"}), error \in {0, ENOLCK} :
              SvcTest("p2", a, error) /\ UNCHANGED LkOthers
GrUnlock == \E a \in GrArgs({"UNLOCK", "UNSHARE"}) :
                SvcUnlock("p2", a) /\ UNCHANGED LkOthers
GrOut == SvcOut("p2") /\ UNCHANGED LkOthers
GrCancelStart == \E a \in GrArgs({"CANCEL"}) :
                     SvcCancelStart("p2", a) /\ UNCHANGED LkOthers
GrCancelUnregister == SvcCancelUnregister("p2") /\ UNCHANGED LkOthers
GrCancelUnlock == \E error \in {0, ENOLCK} :
                      SvcCancelUnlock("p2", error) /\ UNCHANGED LkOthers
GrNotifyServer == SvcNotifyServer("p1") /\ UNCHANGED LkOthers
GrFhToVp == \E p \in Procs : SvcFhToVp(p) /\ UNCHANGED LkOthers
GrVholdFind == \E p \in Procs : VhGetFind(p) /\ UNCHANGED <<svVars, LkOthers>>
GrVholdInsert == \E p \in Procs :
                     VhGetInsert(p) /\ UNCHANGED <<svVars, LkOthers>>
GrVnRele == \E p \in Procs : VhVnRele(p) /\ UNCHANGED <<svVars, LkOthers>>
GrSetlk == \E error \in {0, EAGAIN} :
               SvcSetlk("p1", error, TRUE) /\ UNCHANGED LkOthers
GrShrlock == SvcShrlock("p1", 0) /\ UNCHANGED LkOthers
GrReply == SvcReply("p1") /\ UNCHANGED LkOthers
GrMonFlag == SvcMonFlag("p1") /\ UNCHANGED LkOthers
GrMonRpc == SvcMonRpc("p1", TRUE) /\ UNCHANGED LkOthers
GrSlreqRegister == SvcSlreqRegister("p1") /\ UNCHANGED LkOthers
GrSetlkwReturn == \E error \in {0, EINTR} :
                      SvcSetlkwReturn("p1", error) /\ UNCHANGED LkOthers
GrSlreqUnregister == SvcSlreqUnregister("p1") /\ UNCHANGED LkOthers
GrGrant == SvcGrant("p1", TRUE) /\ UNCHANGED LkOthers
GrRelease == \E p \in Procs : SvcRelease(p) /\ UNCHANGED LkOthers
GrReturn == \E p \in Procs : SvcReturn(p) /\ UNCHANGED LkOthers
GrLocalLock == LocalLock(1) /\ UNCHANGED LkOthers
GrLocalUnlock == LocalUnlock(1) /\ UNCHANGED LkOthers

GrNext ==
    \/ GrStart
    \/ GrTest
    \/ GrUnlock
    \/ GrOut
    \/ GrCancelStart
    \/ GrCancelUnregister
    \/ GrCancelUnlock
    \/ GrNotifyServer
    \/ GrFhToVp
    \/ GrVholdFind
    \/ GrVholdInsert
    \/ GrVnRele
    \/ GrSetlk
    \/ GrShrlock
    \/ GrReply
    \/ GrMonFlag
    \/ GrMonRpc
    \/ GrSlreqRegister
    \/ GrSetlkwReturn
    \/ GrSlreqUnregister
    \/ GrGrant
    \/ GrRelease
    \/ GrReturn
    \/ GrLocalLock
    \/ GrLocalUnlock
    \/ DoTick

SpecGrace == Init /\ [][GrNext]_vars

\* A handler takes a TEST, CANCEL, UNLOCK or UNSHARE request while the grace
\* period lasts.
GrTaken(p) ==
    /\ hpc[p] = "idle" /\ hpc'[p] # "idle"
    /\ harg'[p].op \in GrOps
    /\ NLM_IN_GRACE
\* A step of a handler that serves such a request.
GrStep(p) ==
    /\ hpc'[p] # hpc[p]
    /\ \/ harg[p].op \in GrOps /\ hloc[p].in_grace
       \/ harg'[p].op \in GrOps /\ hloc'[p].in_grace

BlLockArg == [op |-> "LOCK", host |-> 1, fh |-> 1, reclaim |-> 1,
              block |-> TRUE, grant_cb |-> TRUE, exclusive |-> TRUE,
              state |-> 0, cookie |-> 1]
BlArgs(ops) ==
    {[NoArg EXCEPT !.op = o, !.host = 1, !.fh = 1, !.exclusive = x] :
        o \in ops, x \in BOOLEAN}

BlStart == SvcStart("p1", BlLockArg) /\ UNCHANGED LkOthers
BlNotifyServer == SvcNotifyServer("p1") /\ UNCHANGED LkOthers
BlFhToVp == \E p \in Procs : SvcFhToVp(p) /\ UNCHANGED LkOthers
BlVholdFind == \E p \in Procs : VhGetFind(p) /\ UNCHANGED <<svVars, LkOthers>>
BlVholdInsert == \E p \in Procs :
                     VhGetInsert(p) /\ UNCHANGED <<svVars, LkOthers>>
BlVnRele == \E p \in Procs : VhVnRele(p) /\ UNCHANGED <<svVars, LkOthers>>
BlSetlk == \E error \in {0, EAGAIN}, reserved \in BOOLEAN :
               SvcSetlk("p1", error, reserved) /\ UNCHANGED LkOthers
BlReply == SvcReply("p1") /\ UNCHANGED LkOthers
BlMonFlag == SvcMonFlag("p1") /\ UNCHANGED LkOthers
BlMonRpc == \E ok \in BOOLEAN : SvcMonRpc("p1", ok) /\ UNCHANGED LkOthers
BlSlreqRegister == SvcSlreqRegister("p1") /\ UNCHANGED LkOthers
BlSetlkwReturn == \E error \in {0, EINTR, ENOLCK} :
                      SvcSetlkwReturn("p1", error) /\ UNCHANGED LkOthers
BlSlreqUnregister == SvcSlreqUnregister("p1") /\ UNCHANGED LkOthers
BlGrant == \E rpc_ok \in BOOLEAN : SvcGrant("p1", rpc_ok) /\ UNCHANGED LkOthers
BlRelease == \E p \in Procs : SvcRelease(p) /\ UNCHANGED LkOthers
BlReturn == \E p \in Procs : SvcReturn(p) /\ UNCHANGED LkOthers
BlCancelStart == \E a \in BlArgs({"CANCEL"}) :
                     SvcCancelStart("p2", a) /\ UNCHANGED LkOthers
BlCancelUnregister == SvcCancelUnregister("p2") /\ UNCHANGED LkOthers
BlCancelUnlock == \E error \in {0, ENOLCK} :
                      SvcCancelUnlock("p2", error) /\ UNCHANGED LkOthers
BlUnlock == \E a \in BlArgs({"UNLOCK"}) : SvcUnlock("p2", a) /\ UNCHANGED LkOthers
BlOut == SvcOut("p2") /\ UNCHANGED LkOthers
\* The local process takes its lock before the LOCK request comes in.
BlLocalLock == hpc["p1"] = "idle" /\ LocalLock(1) /\ UNCHANGED LkOthers
BlLocalUnlock == LocalUnlock(1) /\ UNCHANGED LkOthers

BlNext ==
    \/ BlStart
    \/ BlNotifyServer
    \/ BlFhToVp
    \/ BlVholdFind
    \/ BlVholdInsert
    \/ BlVnRele
    \/ BlSetlk
    \/ BlReply
    \/ BlMonFlag
    \/ BlMonRpc
    \/ BlSlreqRegister
    \/ BlSetlkwReturn
    \/ BlSlreqUnregister
    \/ BlGrant
    \/ BlRelease
    \/ BlReturn
    \/ BlCancelStart
    \/ BlCancelUnregister
    \/ BlCancelUnlock
    \/ BlUnlock
    \/ BlOut
    \/ BlLocalLock
    \/ BlLocalUnlock
    \/ DoTick

BlFair ==
    /\ WF_vars(BlMonFlag) /\ WF_vars(BlMonRpc)
    /\ WF_vars(BlSlreqRegister) /\ WF_vars(BlSetlkwReturn)
    /\ WF_vars(BlSlreqUnregister) /\ WF_vars(BlGrant)
    /\ WF_vars(SvcRelease("p1") /\ UNCHANGED LkOthers)
    /\ WF_vars(BlLocalUnlock)

SpecBlock == Init /\ [][BlNext]_vars /\ BlFair

\* The LOCK request was answered blocked and its handler is on its way to,
\* or in, F_SETLKW.
BlBlocked ==
    /\ hpc["p1"] \in {"mon", "mon_rpc", "block", "setlkw"}
    /\ hloc["p1"].status = "nlm4_blocked"
    /\ hloc["p1"].replied
\* A CANCEL, an UNLOCK or a notification has touched the sleeping request.
BlTouched == hloc["p1"].intr \/ hloc["p1"].cancelled
\* The handler of the blocked request has returned, its sleeping request is
\* gone, and it has made one GRANTED call back with what the request had.
BlGrantedOnce ==
    /\ hpc["p1"] = "returned"
    /\ SlreqKey(harg["p1"]) \notin slreqs
    /\ hloc["p1"].ncb = 1
    /\ hloc["p1"].cb.cookie = harg["p1"].cookie
    /\ hloc["p1"].cb.exclusive = harg["p1"].exclusive
    /\ hloc["p1"].cb.fh = harg["p1"].fh
    /\ hloc["p1"].cb.host = harg["p1"].host

\* C16 as stated: a blocked request that no CANCEL or notification touches
\* ends, once the conflicting lock is released, with its sleeping request
\* removed and exactly one GRANTED call back.
C16_BlockedThenGranted == BlBlocked ~> (BlGrantedOnce \/ BlTouched)

\* C16: a blocked request that no CANCEL or notification touches ends with
\* F_SETLKW returned and its sleeping request removed; when F_SETLKW
\* succeeded and an RPC handle could be had there was exactly one GRANTED
\* call back, with the cookie, the exclusive flag and the lock of the
\* request, and otherwise there was none.  No request is called back twice.
C16_GrantedUnlessFailed ==
    /\ BlBlocked ~>
         (\/ BlTouched
          \/ /\ hpc["p1"] = "returned"
             /\ SlreqKey(harg["p1"]) \notin slreqs
             /\ IF hloc["p1"].error = 0 /\ hloc["p1"].rpc_ok
                THEN BlGrantedOnce
                ELSE hloc["p1"].ncb = 0)
    /\ [](\A p \in Procs : hloc[p].ncb <= 1)
    /\ [](\A p \in Procs :
            (hpc[p] = "returned" /\ hloc[p].status = "nlm4_blocked") =>
                /\ SlreqKey(harg[p]) \notin slreqs
                /\ hloc[p].ncb = 1 <=> (hloc[p].error = 0 /\ hloc[p].rpc_ok)
                /\ hloc[p].ncb = 1 => hloc[p].cb = harg[p])

\* The blocked request was granted after the local process gave up its lock:
\* the host has the lock and the call back was made.
C16_Witness ==
    /\ BlGrantedOnce
    /\ ~BlTouched
    /\ hloc["p1"].status = "nlm4_blocked"
    /\ <<1, 1>> \in vlk
    /\ 1 \notin loclk

\* C17: once a CANCEL has unregistered the sleeping request of a LOCK that
\* still waited in F_SETLKW, no GRANTED call back is made for that LOCK.
C17_NoGrantAfterCancel ==
    \A p \in Procs : hloc[p].cancelled => hloc[p].ncb = 0


(***************************************************************************)
(* Idle reaping: one handler that refers to hosts, monitors them, locks    *)
(* and releases, beside the garbage collector and the clock.  The          *)
(* collector is a thread of its own whose cv_timedwait() returns at the    *)
(* latest when the idle period is over, so each of its steps and the clock *)
(* are weakly fair; requests arrive or not.                                *)
(***************************************************************************)
\* nlm_host_monitor(g, host, 0) as a whole: a host that is not monitored
\* yet is flagged, statd is called, and the flag is cleared again when the
\* call failed (ok = FALSE).
HostMonitor(p, ok) ==
    /\ ~crashed /\ pc[p] = "held"
    /\ nh' = [nh EXCEPT ![loc[p].host] =
                  IF ok THEN nlm_host_monitor_flag(@, 0) ELSE @]
    /\ UNCHANGED <<svcVars, sysidVars, g, now, flk, pc, loc, gc, crashed>>

RpCallers == {c \in Callers : c.addr.port = 1}

RpHostFind == \E c \in RpCallers : HostFind("p1", c) /\ UNCHANGED RegOthers
RpFindCreateLookup == \E c \in RpCallers :
                          FindCreateLookup("p1", c) /\ UNCHANGED RegOthers
RpFindCreateAlloc == FindCreateAlloc("p1") /\ UNCHANGED RegOthers
RpFindCreateInsert == FindCreateInsert("p1") /\ UNCHANGED RegOthers
RpHostMonitor == \E ok \in BOOLEAN : HostMonitor("p1", ok) /\ UNCHANGED RegOthers
RpVholdGet == VholdGet("p1") /\ UNCHANGED RegOthers
RpVholdRelease == \E op \in BOOLEAN : VholdRelease("p1", op) /\ UNCHANGED RegOthers
RpHostRelease == HostRelease("p1") /\ UNCHANGED RegOthers
RpTick == Tick /\ UNCHANGED RegOthers
RpGcWake == GcWake /\ UNCHANGED RegOthers
RpGcScan == GcScan /\ UNCHANGED RegOthers
RpGcExamine == GcExamine /\ UNCHANGED RegOthers
RpGcRecheck == GcRecheck /\ UNCHANGED RegOthers
RpGcDestroy == \E ok \in BOOLEAN : GcDestroy(ok) /\ UNCHANGED RegOthers

RpNext ==
    \/ RpHostFind
    \/ RpFindCreateLookup
    \/ RpFindCreateAlloc
    \/ RpFindCreateInsert
    \/ RpHostMonitor
    \/ RpVholdGet
    \/ RpVholdRelease
    \/ RpHostRelease
    \/ RpTick
    \/ RpGcWake
    \/ RpGcScan
    \/ RpGcExamine
    \/ RpGcRecheck
    \/ RpGcDestroy

RpFair ==
    /\ WF_vars(RpTick) /\ WF_vars(RpGcWake) /\ WF_vars(RpGcScan)
    /\ WF_vars(RpGcExamine) /\ WF_vars(RpGcRecheck) /\ WF_vars(RpGcDestroy)

SpecReap == Init /\ [][RpNext]_vars /\ RpFair

\* Host h was released by its last user, its idle timeout is over and it has
\* no locks or shares.
RpIdle(h) ==
    /\ nh[h].live /\ h \in g.hosts_tree
    /\ nh[h].refs = 0 /\ nh[h].nv_refcnt = 0
    /\ nh[h].idle_timeout <= now
    /\ nh[h].sysid \notin (flk.remote \cup flk.client)

\* Somebody refers to the host again.
RpTouched(h) == nh[h].live /\ nh[h].refs > 0

\* The collector has just unmonitored and destroyed host h.
RpGone(h) ==
    /\ gc.unmon.host = h
    /\ ~nh[h].live
    /\ NLM_NH_MONITORED \notin nh[h].flags
    /\ nlm_host_find_by_sysid(RegR, gc.unmon.sysid).host = NULL
    /\ gc.unmon.sysid \notin nlm_sysid_bmap

\* C19: a host that was released, whose idle timeout is over and that has no
\* locks or shares is eventually unmonitored and destroyed by the collector
\* unless somebody refers to it again; the collector's destroying step
\* clears NLM_NH_MONITORED and calls statd exactly when the flag was set,
\* whatever the call returns, and leaves the host's sysid unknown to
\* nlm_host_find_by_sysid and free in the bitmap.
C19_IdleHostReaped ==
    /\ \A h \in HostRecs : RpIdle(h) ~> (RpGone(h) \/ RpTouched(h))
    /\ [][gc.pc = "destroy" /\ gc'.pc # "destroy" =>
            /\ \E h \in HostRecs : h = gc.host /\ RpGone(h)'
            /\ gc'.unmon.called <=> NLM_NH_MONITORED \in nh[gc.host].flags
            /\ gc'.unmon.sysid = nh[gc.host].sysid
            /\ nlm_sysid_alloc(nlm_sysid_bmap', gc'.unmon.sysid).ret
                   = gc'.unmon.sysid]_vars

\* The collector has destroyed a monitored host although statd could not be
\* reached.
C19_Witness ==
    \E h \in HostRecs : RpGone(h) /\ gc.unmon.called /\ ~gc.unmon.ok


(***************************************************************************)
(* The status monitor handle on its own: threads that call statd through   *)
(* the same handle.                                                        *)
(***************************************************************************)
NsmOthers == <<sysidVars, syVars, slockVars, regVars, srvVars, loVars, moVars, entVars, caVars, nwVars,
              sqVars,
              vpaVars,
              staVars>>

NsCall == \E t \in NsmThreads, proc \in NsmProcs :
              NsmSemaV(t, proc) /\ UNCHANGED NsmOthers
NsRpcReturn == \E t \in NsmThreads : NsmRpcReturn(t) /\ UNCHANGED NsmOthers
NsSemaP == \E t \in NsmThreads : NsmSemaP(t) /\ UNCHANGED NsmOthers

NsNext == NsCall \/ NsRpcReturn \/ NsSemaP

SpecNsm == Init /\ [][NsNext]_vars

\* The calls that are out on the handle.
NsmInFlight == {t \in NsmThreads : nsm_th[t].pc = "rpc"}

\* C20: at most one call to the local status monitor is in flight on the
\* handle at any time.
C20_OneRpcInFlight == Cardinality(NsmInFlight) <= 1

\* What the code keeps instead: the count of the semaphore is its initial
\* value plus the calls that have done sema_v() and not yet sema_p(), so that
\* no sema_p() ever finds the count 0 and no caller ever waits.
NsmSemaphoreNeverBlocks ==
    /\ nsm_sem = NsmSemInit
                   + Cardinality({t \in NsmThreads : nsm_th[t].pc # "idle"})
    /\ sema_p_ready(nsm_sem)


(***************************************************************************)
(* The locks on their own: threads that run the functions of NLM that      *)
(* take locks, on one registry and one host.                               *)
(***************************************************************************)
LoOthers == <<sysidVars, syVars, slockVars, regVars, srvVars, nsmVars, moVars, entVars, caVars, nwVars,
              sqVars,
              vpaVars,
              staVars>>

LoDoCall == \E t \in LoThreads, fn \in LoFns : LoCall(t, fn) /\ UNCHANGED LoOthers
LoDoAcquire == \E t \in LoThreads : LoAcquire(t) /\ UNCHANGED LoOthers
LoDoRelease == \E t \in LoThreads : LoRelease(t) /\ UNCHANGED LoOthers
LoDoAccess == \E t \in LoThreads : LoAccess(t) /\ UNCHANGED LoOthers

LoNext == LoDoCall \/ LoDoAcquire \/ LoDoRelease \/ LoDoAccess

SpecLocks == Init /\ [][LoNext]_vars

\* A thread that takes a lock holds only locks that come before it in the
\* order, and a thread that is in no function holds no lock.
LockOrderKept ==
    \A t \in LoThreads :
        /\ LoOp(t)[1] = "acq" =>
               \A l \in LoHeld(t) : LoRank(l) < LoRank(LoOp(t)[2])
        /\ LoOp(t)[1] = "rel" => LoOp(t)[2] \in LoHeld(t)
        /\ lo_th[t].fn = "none" => LoHeld(t) = {}

\* No two threads wait for a lock the other holds.
NoLockCycle ==
    \A t, u \in LoThreads :
        ~ /\ t # u
          /\ LoOp(t)[1] = "acq" /\ lo_own[LoOp(t)[2]] = u
          /\ LoOp(u)[1] = "acq" /\ lo_own[LoOp(u)[2]] = t

\* C21: the locks are taken in the order lm_lck, g->lock, nh_lock, every
\* shared field is read and written under the lock that protects it, and no
\* threads wait for each other's locks.
C21_LockOrderAndProtection ==
    /\ LockOrderKept
    /\ NoLockCycle
    /\ \A t \in LoThreads :
           LoOp(t)[1] = "acc" => LoProtects(LoOp(t)[2]) \in LoHeld(t)


(***************************************************************************)
(* Monitoring of one host: service threads in nlm_host_monitor() and       *)
(* nlm_host_notify_client(), the reclaimer, and the collector's            *)
(* nlm_host_unmonitor().  nh_flags is one word: a thread that changes it   *)
(* loads it and stores it back, and only the threads that hold the same    *)
(* lock exclude each other meanwhile.                                      *)
(***************************************************************************)
\* Some thread holds the host's nh_lock.
MoNhLockHeld == \E p \in MoThreads : mo_th[p].pc \in {"mon_store", "nc_store", "rc_store"}
\* Some thread holds g->lock.
MoGLockHeld == \E p \in MoThreads : mo_th[p].pc = "clr_store"

\* nlm_host_monitor(): under nh_lock, the call returns when the host is
\* flagged already; otherwise the load of host->nh_flags |= NLM_NH_MONITORED.
MoMonitorLoad(p) ==
    /\ mo_th[p].pc = "idle" /\ ~MoNhLockHeld
    /\ IF NLM_NH_MONITORED \in mo_flags
       THEN UNCHANGED mo_th
       ELSE mo_th' = [mo_th EXCEPT ![p] = [pc |-> "mon_store", tmp |-> mo_flags]]
    /\ UNCHANGED <<mo_flags, mo_sm>>

\* The store of the flags with NLM_NH_MONITORED, and mutex_exit().
MoMonitorStore(p) ==
    /\ mo_th[p].pc = "mon_store"
    /\ mo_flags' = mo_th[p].tmp \cup {NLM_NH_MONITORED}
    /\ mo_th' = [mo_th EXCEPT ![p] = [pc |-> "mon_rpc", tmp |-> {}]]
    /\ UNCHANGED mo_sm

\* nlm_nsm_mon() returns: statd has registered the host, or the call failed.
MoMonRpc(p, ok) ==
    /\ mo_th[p].pc = "mon_rpc"
    /\ mo_sm' = (mo_sm \/ ok)
    /\ mo_th' = [mo_th EXCEPT ![p].pc = IF ok THEN "idle" ELSE "clr_load"]
    /\ UNCHANGED mo_flags

\* The failure path: mutex_enter(&g->lock) and the load of
\* host->nh_flags &= ~NLM_NH_MONITORED.
MoClearLoad(p) ==
    /\ mo_th[p].pc = "clr_load" /\ ~MoGLockHeld
    /\ mo_th' = [mo_th EXCEPT ![p] = [pc |-> "clr_store", tmp |-> mo_flags]]
    /\ UNCHANGED <<mo_flags, mo_sm>>

\* The store of the cleared flags, and mutex_exit(&g->lock).
MoClearStore(p) ==
    /\ mo_th[p].pc = "clr_store"
    /\ mo_flags' = mo_th[p].tmp \ {NLM_NH_MONITORED}
    /\ mo_th' = [mo_th EXCEPT ![p] = NoMoCall]
    /\ UNCHANGED mo_sm

\* nlm_host_notify_client(): mutex_enter(&hostp->nh_lock), the test of
\* NLM_NH_RECLAIM and the load of hostp->nh_flags |= NLM_NH_RECLAIM.
MoNotifyClientLoad(p) ==
    /\ mo_th[p].pc = "idle" /\ ~MoNhLockHeld
    /\ NLM_NH_RECLAIM \notin mo_flags
    /\ mo_th' = [mo_th EXCEPT ![p] = [pc |-> "nc_store", tmp |-> mo_flags]]
    /\ UNCHANGED <<mo_flags, mo_sm>>

\* The store of the flags with NLM_NH_RECLAIM, and mutex_exit().
MoNotifyClientStore(p) ==
    /\ mo_th[p].pc = "nc_store"
    /\ mo_flags' = mo_th[p].tmp \cup {NLM_NH_RECLAIM}
    /\ mo_th' = [mo_th EXCEPT ![p] = NoMoCall]
    /\ UNCHANGED mo_sm

\* nlm_reclaimer(): mutex_enter(&hostp->nh_lock) and the load of
\* hostp->nh_flags &= ~NLM_NH_RECLAIM.
MoReclaimerLoad ==
    /\ mo_th["reclaimer"].pc = "idle" /\ ~MoNhLockHeld
    /\ NLM_NH_RECLAIM \in mo_flags
    /\ mo_th' = [mo_th EXCEPT !["reclaimer"] = [pc |-> "rc_store", tmp |-> mo_flags]]
    /\ UNCHANGED <<mo_flags, mo_sm>>

\* The store of the flags without NLM_NH_RECLAIM, and mutex_exit().
MoReclaimerStore ==
    /\ mo_th["reclaimer"].pc = "rc_store"
    /\ mo_flags' = mo_th["reclaimer"].tmp \ {NLM_NH_RECLAIM}
    /\ mo_th' = [mo_th EXCEPT !["reclaimer"] = NoMoCall]
    /\ UNCHANGED mo_sm

\* nlm_gc(): the host is idle and unreferenced; nlm_host_unmonitor() clears
\* the flag and calls SM_UNMON if the host is flagged, and the host is
\* destroyed.  A host created for the same peer afterwards has no flags.
MoUnmonitor(ok) ==
    /\ \A p \in MoThreads : mo_th[p].pc = "idle"
    /\ NLM_NH_RECLAIM \notin mo_flags
    /\ mo_flags' = nlm_host_unmonitor([h \in {1} |-> [flags |-> mo_flags]], 1, ok)[1].flags
    /\ mo_sm' = IF NLM_NH_MONITORED \in mo_flags /\ ok THEN FALSE ELSE mo_sm
    /\ UNCHANGED mo_th

MoOthers == <<sysidVars, syVars, slockVars, regVars, srvVars, nsmVars, loVars, entVars, caVars, nwVars,
              sqVars,
              vpaVars,
              staVars>>

MoDoMonitorLoad == \E p \in MoProcs : MoMonitorLoad(p) /\ UNCHANGED MoOthers
MoDoMonitorStore == \E p \in MoProcs : MoMonitorStore(p) /\ UNCHANGED MoOthers
MoDoMonRpc == \E p \in MoProcs, ok \in BOOLEAN : MoMonRpc(p, ok) /\ UNCHANGED MoOthers
MoDoClearLoad == \E p \in MoProcs : MoClearLoad(p) /\ UNCHANGED MoOthers
MoDoClearStore == \E p \in MoProcs : MoClearStore(p) /\ UNCHANGED MoOthers
MoDoNotifyClientLoad == \E p \in MoProcs : MoNotifyClientLoad(p) /\ UNCHANGED MoOthers
MoDoNotifyClientStore == \E p \in MoProcs : MoNotifyClientStore(p) /\ UNCHANGED MoOthers
MoDoReclaimerLoad == MoReclaimerLoad /\ UNCHANGED MoOthers
MoDoReclaimerStore == MoReclaimerStore /\ UNCHANGED MoOthers
MoDoUnmonitor == \E ok \in BOOLEAN : MoUnmonitor(ok) /\ UNCHANGED MoOthers

MoNext ==
    \/ MoDoMonitorLoad
    \/ MoDoMonitorStore
    \/ MoDoMonRpc
    \/ MoDoClearLoad
    \/ MoDoClearStore
    \/ MoDoNotifyClientLoad
    \/ MoDoNotifyClientStore
    \/ MoDoReclaimerLoad
    \/ MoDoReclaimerStore
    \/ MoDoUnmonitor

SpecMon == Init /\ [][MoNext]_vars

\* No call of nlm_host_monitor() is under way.
MoQuiet ==
    \A p \in MoProcs : mo_th[p].pc \notin {"mon_store", "mon_rpc", "clr_load", "clr_store"}

\* C22: whenever no nlm_host_monitor() call is under way the host is flagged
\* NLM_NH_MONITORED if and only if statd holds a MON registration for it.
C22_MonitoredIffRegistered ==
    MoQuiet => (NLM_NH_MONITORED \in mo_flags <=> mo_sm)

\* The half that does not depend on UNMON reaching statd: a host that is
\* flagged while no call is under way is registered.
MonitoredImpliesRegistered ==
    MoQuiet => (NLM_NH_MONITORED \in mo_flags => mo_sm)


(***************************************************************************)
(* File handles without a file, and files of read-only file systems.       *)
(***************************************************************************)
\* Handler p has answered, outside the grace period and for a host the
\* registry has, a request whose file handle has no vnode.
RepliedNoVnode(p) ==
    /\ hpc[p] = "returned"
    /\ harg[p].op \in {"TEST", "LOCK", "CANCEL", "UNLOCK", "SHARE", "UNSHARE"}
    /\ nlm_do_fh_to_vp(harg[p].fh) = NULL
    /\ ~hloc[p].in_grace
    /\ ~ /\ harg[p].op \in {"CANCEL", "UNLOCK", "UNSHARE"}
         /\ hloc[p].status = "nlm4_denied_nolocks"

\* C23: outside the grace period a request whose file handle cannot be
\* translated to a vnode is answered stale_fh, and the host has no lock or
\* share from it.
C23_StaleFh ==
    \A p \in Procs :
        RepliedNoVnode(p) =>
            /\ hloc[p].status = "nlm4_stale_fh"
            /\ <<harg[p].host, harg[p].fh>> \notin (vlk \cup vshr)

\* The same for the handlers other than nlm_do_lock().
StaleFhButLock ==
    \A p \in Procs :
        (RepliedNoVnode(p) /\ harg[p].op # "LOCK") =>
            /\ hloc[p].status = "nlm4_stale_fh"
            /\ <<harg[p].host, harg[p].fh>> \notin (vlk \cup vshr)

\* Handler p has answered, outside the grace period, a request for a file
\* of a read-only file system.
RepliedReadOnly(p) ==
    /\ hpc[p] = "returned"
    /\ harg[p].fh \in Vnodes /\ VFS_RDONLY(harg[p].fh)
    /\ ~hloc[p].in_grace

EnOps == {"TEST", "LOCK", "CANCEL", "UNLOCK", "GRANTED", "SHARE", "UNSHARE"}
\* The procedures that come with a _MSG variant, answered by a call back.
EnMsgOps == {"TEST", "LOCK", "CANCEL", "UNLOCK", "GRANTED"}
\* The handlers that call nlm_host_findcreate(), and nlm_host_find().
EnCreateOps == {"TEST", "LOCK", "SHARE"}
EnFindOps == {"CANCEL", "UNLOCK", "UNSHARE"}

\* A handler whose host is NULL: nlm_do_lock() assigns its status and goes
\* to doreply, nlm_do_granted() answers nlm4_denied and the others
\* nlm4_denied_nolocks, and they return.
EnNoHost(e) ==
    IF e.op = "LOCK"
    THEN [e EXCEPT !.pc = "doreply", !.status = "nlm4_denied_nolocks"]
    ELSE IF e.op = "GRANTED"
    THEN [e EXCEPT !.pc = "returned", !.status = "nlm4_denied"]
    ELSE [e EXCEPT !.pc = "returned", !.status = "nlm4_denied_nolocks"]

\* The request a thread takes up.
EnRequest(op, msg) ==
    [NoEnt EXCEPT !.op = op, !.msg = msg, !.down = g.run_status # NLM_ST_UP]

\* nlm_do_cancel(), nlm_do_unlock() and nlm_do_unshare() from their entry to
\* the return of nlm_host_find().
EnFind(p, op, msg, c) ==
    /\ ~crashed /\ pc[p] = "idle" /\ ent[p].pc = "idle"
    /\ op \in EnFindOps /\ (msg => op \in EnMsgOps)
    /\ LET f == nlm_host_find(RegR, c.netid, c.addr) IN
        /\ Commit(f.R)
        /\ Returned(p, f.host)
        /\ ent' = [ent EXCEPT ![p] =
               IF f.host = NULL THEN EnNoHost(EnRequest(op, msg))
               ELSE [EnRequest(op, msg) EXCEPT !.pc = "work"]]
    /\ UNCHANGED <<svcVars, sysidVars, now, flk, gc, en_foreign>>

\* nlm_do_granted() from its entry to the return of
\* nlm_host_find_by_sysid().
EnGranted(p, msg, sysid) ==
    /\ ~crashed /\ pc[p] = "idle" /\ ent[p].pc = "idle"
    /\ LET f == nlm_host_find_by_sysid(RegR, sysid) IN
        /\ Commit(f.R)
        /\ Returned(p, f.host)
        /\ ent' = [ent EXCEPT ![p] =
               IF f.host = NULL THEN EnNoHost(EnRequest("GRANTED", msg))
               ELSE [EnRequest("GRANTED", msg) EXCEPT !.pc = "work"]]
    /\ UNCHANGED <<svcVars, sysidVars, now, flk, gc, en_foreign>>

\* nlm_do_test(), nlm_do_lock() and nlm_do_share() from their entry to the
\* end of the first critical section of nlm_host_findcreate().
EnFindCreate(p, op, msg, c) ==
    /\ ~crashed /\ pc[p] = "idle" /\ ent[p].pc = "idle"
    /\ op \in EnCreateOps /\ (msg => op \in EnMsgOps)
    /\ IF g.run_status # NLM_ST_UP
       THEN /\ ent' = [ent EXCEPT ![p] = EnNoHost(EnRequest(op, msg))]
            /\ UNCHANGED <<g, nh, pc, loc, crashed>>
            /\ UNCHANGED <<svcVars, sysidVars, now, flk, gc>>
       ELSE /\ FindCreateLookup(p, c)
            /\ ent' = [ent EXCEPT ![p] =
                   [EnRequest(op, msg) EXCEPT !.pc = "findcreate"]]
    /\ UNCHANGED en_foreign

\* nlm_host_findcreate(): nlm_create_host() and nlm_sysid_alloc().
EnFindCreateAlloc(p) ==
    /\ ent[p].pc = "findcreate"
    /\ FindCreateAlloc(p)
    /\ ent' = [ent EXCEPT ![p].nosysid = (nh'[loc'[p].newhost].sysid = LM_NOSYSID)]
    /\ UNCHANGED en_foreign

\* nlm_host_findcreate(), second critical section.
EnFindCreateInsert(p) ==
    /\ ent[p].pc = "findcreate"
    /\ FindCreateInsert(p)
    /\ UNCHANGED entVars

\* nlm_host_findcreate(), out.
EnFindCreateDiscard(p) ==
    /\ ent[p].pc = "findcreate"
    /\ FindCreateDiscard(p)
    /\ UNCHANGED entVars

\* The handler tests what nlm_host_findcreate() has returned.
EnCreated(p) ==
    /\ ~crashed /\ ent[p].pc = "findcreate" /\ pc[p] \in {"idle", "held"}
    /\ ent' = [ent EXCEPT ![p] =
           IF pc[p] = "idle" THEN EnNoHost(@) ELSE [@ EXCEPT !.pc = "work"]]
    /\ UNCHANGED <<regVars, sysidVars, en_foreign>>

\* What nlm_host_get_rpc() does when it is handed a NULL host: it takes the
\* host's nh_lock and searches the host's cache, through the NULL pointer.
\* The kernel panics, or the function comes back with an error, or with a
\* handle the answer is sent through.
EnGetRpcNull == {"panic", "error", "sent"}

\* nlm_do_lock() from doreply without a host: the inline variant sends the
\* answer through reply_cb; the _MSG variant calls nlm_host_get_rpc(host)
\* for the call back.  Then nlm_vhold_release() and nlm_host_release()
\* return at once for the NULL vhold and host.
EnDoReply(p, out) ==
    /\ ~crashed /\ ent[p].pc = "doreply"
    /\ out \in EnGetRpcNull
    /\ IF ~ent[p].msg
       THEN /\ out = "sent"
            /\ ent' = [ent EXCEPT ![p].pc = "returned"]
            /\ UNCHANGED crashed
       ELSE /\ ent' = [ent EXCEPT ![p].rpc = out,
                                  ![p].pc = IF out = "panic" THEN "panic"
                                            ELSE "returned"]
            /\ crashed' = (out = "panic")
    /\ UNCHANGED <<g, nh, now, flk, pc, loc, gc, svcVars, sysidVars, en_foreign>>

\* A handler that got its host does its work (the other sections follow
\* it), answers and calls nlm_host_release().
EnRelease(p, status) ==
    /\ ent[p].pc = "work"
    /\ status \in {"nlm4_granted", "nlm4_denied"}
    /\ HostRelease(p)
    /\ ent' = [ent EXCEPT ![p].pc = "returned", ![p].status = status]
    /\ UNCHANGED en_foreign

\* The thread goes back to the pool.
EnDone(p) ==
    /\ ~crashed /\ ent[p].pc = "returned"
    /\ ent' = [ent EXCEPT ![p] = NoEnt]
    /\ UNCHANGED <<regVars, sysidVars, en_foreign>>

\* nlm_host_findcreate() for a caller whose host record is not followed: it
\* takes a sysid.
EnForeignCreate ==
    /\ ~crashed /\ g.run_status = NLM_ST_UP
    /\ LET a == nlm_sysid_alloc(nlm_sysid_bmap, nlm_sysid_nidx) IN
        /\ a.ret # LM_NOSYSID
        /\ nlm_sysid_bmap' = a.bmap
        /\ nlm_sysid_nidx' = a.nidx
        /\ en_foreign' = en_foreign \cup {a.ret}
    /\ UNCHANGED <<regVars, ent>>

\* nlm_host_destroy() of such a host: its sysid is freed.
EnForeignDestroy(s) ==
    /\ ~crashed /\ s \in en_foreign
    /\ nlm_sysid_bmap' = nlm_sysid_free(nlm_sysid_bmap, s)
    /\ en_foreign' = en_foreign \ {s}
    /\ UNCHANGED <<regVars, nlm_sysid_nidx, ent>>

EnOthers == <<syVars, slockVars, srvVars, nsmVars, loVars, moVars, caVars,
              nwVars,
              sqVars,
              vpaVars,
              staVars>>

EnDoFind == \E p \in Handlers, op \in EnFindOps, msg \in BOOLEAN, c \in RpCallers :
                EnFind(p, op, msg, c) /\ UNCHANGED EnOthers
EnDoGranted == \E p \in Handlers, msg \in BOOLEAN, s \in Sysids :
                   EnGranted(p, msg, s) /\ UNCHANGED EnOthers
EnDoFindCreate == \E p \in Handlers, op \in EnCreateOps, msg \in BOOLEAN,
                     c \in RpCallers :
                      EnFindCreate(p, op, msg, c) /\ UNCHANGED EnOthers
EnDoFindCreateAlloc == \E p \in Handlers : EnFindCreateAlloc(p) /\ UNCHANGED EnOthers
EnDoFindCreateInsert == \E p \in Handlers : EnFindCreateInsert(p) /\ UNCHANGED EnOthers
EnDoFindCreateDiscard == \E p \in Handlers :
                             EnFindCreateDiscard(p) /\ UNCHANGED EnOthers
EnDoCreated == \E p \in Handlers : EnCreated(p) /\ UNCHANGED EnOthers
EnDoDoReply == \E p \in Handlers, out \in EnGetRpcNull :
                   EnDoReply(p, out) /\ UNCHANGED EnOthers
EnDoRelease == \E p \in Handlers, status \in {"nlm4_granted", "nlm4_denied"} :
                   EnRelease(p, status) /\ UNCHANGED EnOthers
EnDoDone == \E p \in Handlers : EnDone(p) /\ UNCHANGED EnOthers
EnDoForeignCreate == EnForeignCreate /\ UNCHANGED EnOthers
EnDoForeignDestroy == \E s \in Sysids : EnForeignDestroy(s) /\ UNCHANGED EnOthers
EnSvcStop == SvcStop /\ UNCHANGED <<EnOthers, entVars>>

EnNext ==
    \/ EnDoFind
    \/ EnDoGranted
    \/ EnDoFindCreate
    \/ EnDoFindCreateAlloc
    \/ EnDoFindCreateInsert
    \/ EnDoFindCreateDiscard
    \/ EnDoCreated
    \/ EnDoDoReply
    \/ EnDoRelease
    \/ EnDoDone
    \/ EnDoForeignCreate
    \/ EnDoForeignDestroy
    \/ EnSvcStop

SpecEntry == Init /\ [][EnNext]_vars

\* The state a handler that was entered while run_status was not UP must
\* leave alone: the hosts, their vholds and locks, the sysids and the
\* client sleeping locks.
EnFrame == <<g, nh, flk, sysidVars, en_foreign, srvVars, slockVars>>

\* C25: a handler entered while run_status is not UP answers
\* denied_nolocks, whatever the procedure and the variant, and its steps
\* change no host, vhold, lock or sleeping lock.
C25_DownDeniedNolocks ==
    /\ [](\A p \in Handlers :
            ent[p].down =>
                /\ ent[p].pc \in {"idle", "doreply", "returned"}
                /\ ent[p].pc = "returned" =>
                       ent[p].status = "nlm4_denied_nolocks")
    /\ [][\A p \in Handlers :
            (ent'[p].down /\ ent'[p] # ent[p]) => UNCHANGED EnFrame]_vars

\* What holds of the handlers entered while run_status is not UP: they
\* change nothing, GRANTED answers nlm4_denied, the others but the _MSG
\* variant of LOCK answer nlm4_denied_nolocks.
DownDeniedButGrantedAndLockMsg ==
    /\ [](\A p \in Handlers :
            (ent[p].down /\ ent[p].pc = "returned" /\ ent[p].rpc = "none") =>
                ent[p].status = IF ent[p].op = "GRANTED" THEN "nlm4_denied"
                                ELSE "nlm4_denied_nolocks")
    /\ [](\A p \in Handlers :
            (ent[p].down /\ ~(ent[p].op = "LOCK" /\ ent[p].msg)) =>
                ent[p].pc \in {"idle", "doreply", "returned"})
    /\ [][\A p \in Handlers :
            (ent'[p].down /\ ent'[p] # ent[p]) => UNCHANGED EnFrame]_vars

\* The sysids in use: bit 0, those of the live host records and those of
\* the hosts that are not followed.
EnSysidsInUse ==
    ({0} \cup en_foreign \cup {nh[h].sysid : h \in {r \in HostRecs : nh[r].live}})
        \ {LM_NOSYSID}

\* Thread p is past a nlm_host_findcreate() that found no sysid.
EnNoSysid(p) == ent[p].nosysid /\ ent[p].pc # "findcreate"

\* C26: after a nlm_host_findcreate() that found no sysid, no record but
\* the registered hosts is left, the bitmap holds the sysids in use and
\* nothing else, and TEST, LOCK and SHARE, inline or _MSG, finish with
\* denied_nolocks and without a call that is handed a host.
C26_NoSysidDeniedNolocks ==
    \A p \in Handlers :
        EnNoSysid(p) =>
            /\ \A h \in HostRecs : nh[h].live => h \in g.hosts_tree
            /\ nlm_sysid_bmap = EnSysidsInUse
            /\ ent[p].pc \in {"doreply", "returned"}
            /\ ent[p].status = "nlm4_denied_nolocks"
            /\ ent[p].rpc = "none"

\* The same without the _MSG variant of LOCK.
NoSysidDeniedButLockMsg ==
    \A p \in Handlers :
        (EnNoSysid(p) /\ ~(ent[p].op = "LOCK" /\ ent[p].msg)) =>
            /\ \A h \in HostRecs : nh[h].live => h \in g.hosts_tree
            /\ nlm_sysid_bmap = EnSysidsInUse
            /\ ent[p].pc \in {"doreply", "returned"}
            /\ ent[p].status = "nlm4_denied_nolocks"
            /\ ent[p].rpc = "none"

(***************************************************************************)
(* Shutdown: a handler that creates hosts, locks and releases, the         *)
(* garbage collector and the clock, and nlm_svc_stopping().  The collector *)
(* and the stopping thread are threads of their own, so their steps are    *)
(* weakly fair; a handler that holds a host goes on to release it.         *)
(***************************************************************************)
ShFindCreateLookup == \E c \in RpCallers :
                          FindCreateLookup("p1", c) /\ UNCHANGED RegOthers
ShClientLockOp == ClientLockOp("p1") /\ UNCHANGED RegOthers

ShNext ==
    \/ ShFindCreateLookup
    \/ RpFindCreateAlloc
    \/ RpFindCreateInsert
    \/ RpVholdGet
    \/ RpVholdRelease
    \/ ShClientLockOp
    \/ RpHostRelease
    \/ RpTick
    \/ RpGcWake
    \/ RpGcScan
    \/ RpGcExamine
    \/ RpGcRecheck
    \/ RpGcDestroy
    \/ DoSvcStop
    \/ DoStopWaitGc
    \/ DoStopSweep
    \/ DoStopDrain
    \/ DoStopUnregTree
    \/ DoStopUnregHash
    \/ DoStopUnregIdle
    \/ DoStopDestroy

ShFair ==
    /\ WF_vars(RpGcWake) /\ WF_vars(RpGcScan) /\ WF_vars(RpGcExamine)
    /\ WF_vars(RpGcRecheck) /\ WF_vars(RpGcDestroy)
    /\ WF_vars(DoStopWaitGc) /\ WF_vars(DoStopSweep) /\ WF_vars(DoStopDrain)
    /\ WF_vars(DoStopUnregTree) /\ WF_vars(DoStopUnregHash)
    /\ WF_vars(DoStopUnregIdle) /\ WF_vars(DoStopDestroy)
    /\ WF_vars(RpFindCreateAlloc) /\ WF_vars(RpFindCreateInsert)
    /\ WF_vars(RpVholdRelease) /\ WF_vars(ShClientLockOp \/ RpHostRelease)
    /\ WF_vars(RpHostRelease)

SpecStop == Init /\ [][ShNext]_vars /\ ShFair

\* nlm_svc_stopping() has returned and nothing is left of the hosts.
ShDown ==
    /\ st.pc = "down" /\ g.run_status = NLM_ST_DOWN
    /\ gc.pc = "exited" /\ ~g.gc_thread
    /\ g.hosts_tree = {}
    /\ \A s \in Sysids : g.hosts_hash[s] = NULL
    /\ g.idle_first = NULL
    /\ \A h \in HostRecs : ~nh[h].live
    /\ nlm_sysid_bmap = SysidInitBmap
    /\ nlm_slocks = <<>>

\* C27: once run_status is STOPPING the GC thread exits and
\* nlm_svc_stopping() gets past its wait for it, wherever the GC thread
\* stood; and, the handlers releasing their hosts, the host loop ends with
\* the tree, the hash and the idle list empty, every sysid free, no client
\* sleeping lock and run_status DOWN.
C27_ShutdownTerminates ==
    /\ (g.run_status = NLM_ST_STOPPING) ~> (gc.pc = "exited" /\ st.pc # "wait_gc")
    /\ (g.run_status = NLM_ST_STOPPING) ~> ShDown

(***************************************************************************)
(* CANCEL and the sleeping requests of a vhold: blocking LOCK requests of  *)
(* one host on one file register and unregister their struct flock64, and  *)
(* nlm_do_cancel() looks for the one to cancel; one CANCEL is served at a   *)
(* time.                                                                   *)
(***************************************************************************)
\* The struct nlm4_lock of the requests: offset, length and svid.
CaLocks == [l_offset : {0, 1}, l_len : {1, 2}, svid : {1, 2}]

\* nlm_init_flock(), and the l_type the handlers set from argp->exclusive.
nlm_init_flock(nl, exclusive) ==
    [l_start |-> nl.l_offset, l_len |-> nl.l_len, l_pid |-> nl.svid,
     l_type |-> IF exclusive THEN "F_WRLCK" ELSE "F_RDLCK"]

\* A faulty nlm_slreq_find_locked(): the owner is not compared.
nlm_slreq_find_locked_nopid(list, flp) ==
    LET hits == {i \in 1..Len(list) :
                    /\ list[i].l_start = flp.l_start
                    /\ list[i].l_len = flp.l_len
                    /\ list[i].l_type = flp.l_type}
    IN  IF hits = {} THEN 0 ELSE CHOOSE i \in hits : \A j \in hits : i <= j

\* nlm_slreq_find_locked(): the index of the first request of the list with
\* the l_start, l_len, l_pid and l_type of flp, 0 for NULL.
nlm_slreq_find_locked(list, flp) ==
    LET hits == {i \in 1..Len(list) :
                    /\ list[i].l_start = flp.l_start
                    /\ list[i].l_len = flp.l_len
                    /\ list[i].l_pid = flp.l_pid
                    /\ list[i].l_type = flp.l_type}
    IN  IF hits = {} THEN 0 ELSE CHOOSE i \in hits : \A j \in hits : i <= j

\* TAILQ_REMOVE(&nvp->nv_slreqs, slr, nsr_link) of the request at index i.
CaRemove(list, i) == SubSeq(list, 1, i - 1) \o SubSeq(list, i + 1, Len(list))

\* nlm_slreq_register(): the request joins the tail unless one like it is
\* registered.
CaRegister(nl, exclusive) ==
    /\ ca_res = NoCancel /\ Len(ca_slreqs) < MaxSlreqs
    /\ LET flp == nlm_init_flock(nl, exclusive) IN
        /\ nlm_slreq_find_locked(ca_slreqs, flp) = 0
        /\ ca_slreqs' = Append(ca_slreqs, flp)
    /\ UNCHANGED ca_res

\* nlm_block() after F_SETLKW has returned: nlm_slreq_unregister() of its
\* own request.
CaBlockUnregister(nl, exclusive) ==
    /\ ca_res = NoCancel
    /\ LET i == nlm_slreq_find_locked(ca_slreqs, nlm_init_flock(nl, exclusive)) IN
        /\ i # 0
        /\ ca_slreqs' = CaRemove(ca_slreqs, i)
    /\ UNCHANGED ca_res

\* nlm_do_cancel(): known is whether nlm_host_find() finds the host, fh_ok
\* whether nlm_fh_to_vhold() gives a vhold, error what F_UNLCK returns.
CaCancel(nl, exclusive, known, in_grace, fh_ok, error) ==
    LET flp == nlm_init_flock(nl, exclusive)
        i == nlm_slreq_find_locked(ca_slreqs, flp)
        served == known /\ ~in_grace /\ fh_ok
        after == IF served /\ i # 0 THEN CaRemove(ca_slreqs, i) ELSE ca_slreqs
        status == IF ~known THEN "nlm4_denied_nolocks"
                  ELSE IF in_grace THEN "nlm4_denied_grace_period"
                  ELSE IF ~fh_ok THEN "nlm4_stale_fh"
                  ELSE nlm_do_cancel_status(i # 0, error)
    IN  /\ ca_res = NoCancel
        /\ ca_slreqs' = after
        /\ ca_res' = [op |-> "CANCEL", nl |-> nl, exclusive |-> exclusive,
                      served |-> served, before |-> ca_slreqs, after |-> after,
                      error |-> error, status |-> status]

\* The thread that served the CANCEL goes back to the pool.
CaReturn ==
    /\ ca_res # NoCancel
    /\ ca_res' = NoCancel
    /\ UNCHANGED ca_slreqs

CaOthers == <<sysidVars, syVars, slockVars, regVars, srvVars, nsmVars, loVars,
              moVars, entVars,
              nwVars,
              sqVars,
              vpaVars,
              staVars>>

CaDoRegister == \E nl \in CaLocks, exclusive \in BOOLEAN :
                    CaRegister(nl, exclusive) /\ UNCHANGED CaOthers
CaDoBlockUnregister == \E nl \in CaLocks, exclusive \in BOOLEAN :
                           CaBlockUnregister(nl, exclusive) /\ UNCHANGED CaOthers
CaDoCancel == \E nl \in CaLocks, exclusive \in BOOLEAN, known \in BOOLEAN,
                 in_grace \in BOOLEAN, fh_ok \in BOOLEAN, error \in {0, ENOLCK} :
                  /\ CaCancel(nl, exclusive, known, in_grace, fh_ok, error)
                  /\ UNCHANGED CaOthers

CaDoReturn == CaReturn /\ UNCHANGED CaOthers

CaNext == CaDoRegister \/ CaDoBlockUnregister \/ CaDoCancel \/ CaDoReturn

SpecCancel == Init /\ [][CaNext]_vars

\* The requests of the list the last CANCEL found that have the offset, the
\* length and the svid of its lock, and the type its exclusive flag stands
\* for.
CaMatching ==
    {k \in 1..Len(ca_res.before) :
        ca_res.before[k] =
            [l_start |-> ca_res.nl.l_offset, l_len |-> ca_res.nl.l_len,
             l_pid |-> ca_res.nl.svid,
             l_type |-> IF ca_res.exclusive THEN "F_WRLCK" ELSE "F_RDLCK"]}

\* C28: a CANCEL served outside the grace period for a known host and a
\* valid file handle removes the sleeping request that has its offset,
\* length, svid and lock type, if there is one, and no other; it answers
\* granted when it removed one or the unlock succeeded and denied otherwise.
C28_CancelGrantedIff ==
    (ca_res.op = "CANCEL" /\ ca_res.served) =>
        /\ ca_res.status \in {"nlm4_granted", "nlm4_denied"}
        /\ ca_res.status = "nlm4_granted" <=>
               (CaMatching # {} \/ ca_res.error = 0)
        /\ IF CaMatching = {} THEN ca_res.after = ca_res.before
           ELSE /\ Len(ca_res.after) = Len(ca_res.before) - 1
                /\ \A k \in 1..Len(ca_res.after) :
                       ca_res.after[k] \in
                           {ca_res.before[j] :
                               j \in (1..Len(ca_res.before)) \ CaMatching}

\* A CANCEL has removed a sleeping request beside another one and answered
\* granted although the unlock failed.
C28_Witness ==
    /\ ca_res.op = "CANCEL" /\ ca_res.served
    /\ CaMatching # {} /\ Len(ca_res.before) = MaxSlreqs
    /\ ca_res.error # 0
    /\ ca_res.status = "nlm4_granted"

(***************************************************************************)
(* nlm_host_notify_server() beside the vhold collector (SpecNotify): one   *)
(* thread purges the server side state of host NwHost while handlers serve *)
(* another host on a file the two share, and while the collector, which    *)
(* took a host from the idle list before the purge began, destroys the     *)
(* vholds that are not busy.                                               *)
(***************************************************************************)
\* The host whose state is purged.
NwHost == CHOOSE h \in VhHosts : \A k \in VhHosts : h <= k
\* The files the clients of host h use.
NwFiles(h) == IF h = NwHost THEN {1, 2} ELSE {1}
\* The NSM states a caller passes; 0 stands for "no state".
NwStates == 0..MaxNwState

\* nh_vholds_list of host h, as the set of the vnodes it has a vhold for; the
\* list is walked in the order of the vnode numbers.
NwLive(h) == {vp \in Vnodes : vh[h][vp].live}
\* TAILQ_FIRST / TAILQ_NEXT over H, NULL at the end.
NwFirst(H) == IF H = {} THEN NULL ELSE CHOOSE vp \in H : \A w \in H : vp <= w
NwAfter(H, vp) == NwFirst({w \in H : w > vp})

\* nv_slreqs of the vhold of vp at host h is emptied.
NwDrain(S, h, vp) == {k \in S : ~(k[1] = h /\ k[2] = vp)}

\* A faulty nlm_host_notify_server(): it records the state whatever it is.
nlm_notify_server_state_always(old, state) == state

\* nlm_host_notify_server(): nh_state after "if (state != 0) nh_state = state".
nlm_notify_server_state(old, state) == IF state # 0 THEN state ELSE old

\* A handler of host h has finished a LOCK or a SHARE on vp, or sleeps in a
\* blocking LOCK with its request on nv_slreqs and a reference of the vhold.
\* No handler adds state for the host that is being purged.
NwAdd(h, vp, kind) ==
    /\ h = NwHost => nw.pc = "idle"
    /\ vp \in NwFiles(h)
    /\ CASE kind = "lock" ->
               /\ <<h, vp>> \notin vlk
               /\ vlk' = vlk \cup {<<h, vp>>}
               /\ UNCHANGED <<vshr, slreqs>>
         [] kind = "share" ->
               /\ <<h, vp>> \notin vshr
               /\ vshr' = vshr \cup {<<h, vp>>}
               /\ UNCHANGED <<vlk, slreqs>>
         [] kind = "slreq" ->
               /\ <<h, vp, FALSE>> \notin slreqs
               /\ vh[h][vp].nv_refcnt = 0
               /\ slreqs' = slreqs \cup {<<h, vp, FALSE>>}
               /\ UNCHANGED <<vlk, vshr>>
    /\ vh' = [vh EXCEPT ![h][vp] =
                [live |-> TRUE,
                 nv_refcnt |-> IF kind = "slreq" THEN 1 ELSE @.nv_refcnt]]
    /\ v_count' = [v_count EXCEPT ![vp] = IF vh[h][vp].live THEN @ ELSE @ + 1]
    /\ UNCHANGED <<lk_host, nw, ngc>>

\* UNLOCK, UNSHARE or CANCEL of host h on vp.
NwDrop(h, vp, kind) ==
    /\ CASE kind = "lock" ->
               /\ <<h, vp>> \in vlk
               /\ vlk' = vlk \ {<<h, vp>>}
               /\ UNCHANGED <<vshr, slreqs>>
         [] kind = "share" ->
               /\ <<h, vp>> \in vshr
               /\ vshr' = vshr \ {<<h, vp>>}
               /\ UNCHANGED <<vlk, slreqs>>
         [] kind = "slreq" ->
               /\ <<h, vp, FALSE>> \in slreqs
               /\ slreqs' = slreqs \ {<<h, vp, FALSE>>}
               /\ UNCHANGED <<vlk, vshr>>
    /\ UNCHANGED <<vh, v_count, lk_host, nw, ngc>>

\* nlm_block() of a request that is no longer registered returns, and
\* nlm_do_lock() releases the vhold.
NwWake(h, vp) ==
    /\ vh[h][vp].nv_refcnt > 0
    /\ <<h, vp, FALSE>> \notin slreqs
    /\ vh' = [vh EXCEPT ![h][vp].nv_refcnt = @ - 1]
    /\ UNCHANGED <<v_count, vlk, vshr, slreqs, lk_host, nw, ngc>>

\* nlm_gc(): the first host of the idle list, its timeout expired, is taken
\* and g->lock dropped; the host is on the idle list while nobody holds a
\* reference of it.
NwGcPick(h) ==
    /\ ngc = NULL
    /\ h = NwHost => nw.pc = "idle"
    /\ NwLive(h) # {}
    /\ \A vp \in Vnodes : vh[h][vp].nv_refcnt = 0
    /\ ngc' = h
    /\ UNCHANGED <<vh, v_count, vlk, vshr, slreqs, lk_host, nw>>

\* nlm_gc(): nh_lock is taken and nlm_host_gc_vholds() destroys the vholds
\* that are not busy.
NwGcVholds ==
    /\ ngc # NULL
    /\ vh' = [vh EXCEPT ![ngc] =
                [vp \in Vnodes |-> IF vp \in VhStale(ngc) THEN NoVhold ELSE @[vp]]]
    /\ v_count' = [vp \in Vnodes |->
                     IF vp \in VhStale(ngc) THEN v_count[vp] - 1 ELSE v_count[vp]]
    /\ ngc' = NULL
    /\ UNCHANGED <<vlk, vshr, slreqs, lk_host, nw>>

\* nlm_host_notify_server(NwHost, state) up to its first mutex_exit(): the
\* state is recorded, and the sleeping requests of the first vhold are taken
\* off its list.
NwCall(state) ==
    /\ nw.pc = "idle"
    /\ lk_host' = [lk_host EXCEPT ![NwHost].state =
                      nlm_notify_server_state(@, state)]
    /\ LET first == NwFirst(NwLive(NwHost)) IN
        /\ nw' = [pc |-> IF first = NULL THEN "returned" ELSE "clean",
                  state |-> state, old |-> lk_host[NwHost].state,
                  nvp |-> first, freed |-> FALSE]
        /\ slreqs' = IF first = NULL THEN slreqs
                     ELSE NwDrain(slreqs, NwHost, first)
    /\ UNCHANGED <<vh, v_count, vlk, vshr, ngc>>

\* ... cleanlocks(nvp->nv_vp, IGN_PID, sysid) and cleanshares_by_sysid(),
\* without nh_lock.  nlm_vhold_destroy() stores NULL in nv_vp and frees the
\* vhold: of a vhold that was destroyed the thread reads NULL, and the
\* engine dereferences it, or what the memory holds by now.
NwClean(out) ==
    /\ nw.pc = "clean"
    /\ IF vh[NwHost][nw.nvp].live THEN out = nw.nvp ELSE out \in Vnodes \cup {NULL}
    /\ IF out = NULL
       THEN /\ nw' = [nw EXCEPT !.pc = "panic", !.freed = TRUE]
            /\ UNCHANGED <<vlk, vshr>>
       ELSE /\ nw' = [nw EXCEPT !.pc = "next",
                                !.freed = @ \/ ~vh[NwHost][nw.nvp].live]
            /\ vlk' = vlk \ {<<NwHost, out>>}
            /\ vshr' = vshr \ {<<NwHost, out>>}
    /\ UNCHANGED <<vh, v_count, slreqs, lk_host, ngc>>

\* ... mutex_enter(&hostp->nh_lock) and the TAILQ_NEXT of TAILQ_FOREACH:
\* the sleeping requests of the next vhold are taken off, or the walk is
\* over. nv_link of a vhold that was destroyed is read from freed memory.
NwAdvance(nxt, panic) ==
    /\ nw.pc = "next"
    /\ IF vh[NwHost][nw.nvp].live
       THEN nxt = NwAfter(NwLive(NwHost), nw.nvp) /\ ~panic
       ELSE nxt \in NwLive(NwHost) \cup {NULL} /\ (panic => nxt = NULL)
    /\ nw' = [nw EXCEPT !.pc = CASE panic -> "panic"
                                 [] nxt = NULL /\ ~panic -> "returned"
                                 [] OTHER -> "clean",
                        !.nvp = nxt,
                        !.freed = @ \/ ~vh[NwHost][nw.nvp].live]
    /\ slreqs' = IF nxt # NULL THEN NwDrain(slreqs, NwHost, nxt) ELSE slreqs
    /\ UNCHANGED <<vh, v_count, vlk, vshr, lk_host, ngc>>

\* The caller goes on and releases the host.
NwReturn ==
    /\ nw.pc = "returned"
    /\ nw' = NoWalk
    /\ UNCHANGED <<vh, v_count, vlk, vshr, slreqs, lk_host, ngc>>

NwOthers == <<sysidVars, syVars, slockVars, regVars, vpc, vloc, hpc, harg,
              hloc, loclk, nsmVars, loVars, moVars, entVars, caVars,
              sqVars,
              vpaVars,
              staVars>>
NwKinds == {"lock", "share", "slreq"}

NwDoAdd == \E h \in VhHosts, vp \in Vnodes, kind \in NwKinds :
    NwAdd(h, vp, kind) /\ UNCHANGED NwOthers
NwDoDrop == \E h \in VhHosts, vp \in Vnodes, kind \in NwKinds :
    NwDrop(h, vp, kind) /\ UNCHANGED NwOthers
NwDoWake == \E h \in VhHosts, vp \in Vnodes : NwWake(h, vp) /\ UNCHANGED NwOthers
NwDoGcPick == \E h \in VhHosts : NwGcPick(h) /\ UNCHANGED NwOthers
NwDoGcVholds == NwGcVholds /\ UNCHANGED NwOthers
NwDoCall == \E state \in NwStates : NwCall(state) /\ UNCHANGED NwOthers
NwDoClean == \E out \in Vnodes \cup {NULL} : NwClean(out) /\ UNCHANGED NwOthers
NwDoAdvance == \E nxt \in Vnodes \cup {NULL}, panic \in BOOLEAN :
    NwAdvance(nxt, panic) /\ UNCHANGED NwOthers
NwDoReturn == NwReturn /\ UNCHANGED NwOthers

NwNext ==
    \/ NwDoAdd
    \/ NwDoDrop
    \/ NwDoWake
    \/ NwDoGcPick
    \/ NwDoGcVholds
    \/ NwDoCall
    \/ NwDoClean
    \/ NwDoAdvance
    \/ NwDoReturn

SpecNotify == Init /\ [][NwNext]_vars

\* What host h has on the server side: locks, shares, sleeping requests.
NwStateOf(h) ==
    <<{k \in vlk : k[1] = h}, {k \in vshr : k[1] = h},
      {k \in slreqs : k[1] = h}>>

\* Every vhold of NwHost is without sleeping requests, locks and shares, and
\* nh_state is the given state if that is not 0 and what it was otherwise.
NwPurged ==
    /\ \A vp \in NwLive(NwHost) :
           /\ <<NwHost, vp>> \notin vlk
           /\ <<NwHost, vp>> \notin vshr
           /\ <<NwHost, vp, FALSE>> \notin slreqs
    /\ lk_host[NwHost].state = IF nw.state # 0 THEN nw.state ELSE nw.old

\* C29: when nlm_host_notify_server(host, state) returns and no handler has
\* added state for the host meanwhile, every vhold of the host is without
\* sleeping requests, remote locks and shares, the recorded state is the
\* given one if and only if that is not 0, and the locks, shares and
\* sleeping requests of the other hosts are what they were.
C29_NotifyServerPurges ==
    /\ [](nw.pc = "returned" => NwPurged)
    /\ [][\A h \in VhHosts \ {NwHost} :
            (nw' # nw /\ nw.pc # "returned") => NwStateOf(h)' = NwStateOf(h)]_vars

\* As long as the thread has used no vhold that was destroyed under it, it
\* returns with the host purged.
NotifyServerPurgesUnlessFreed ==
    (nw.pc = "returned" /\ ~nw.freed) => NwPurged

\* nlm_host_notify_server() never touches another host.
NotifyServerSparesOthers ==
    [][\A h \in VhHosts \ {NwHost} :
         (nw' # nw /\ nw.pc # "returned") => NwStateOf(h)' = NwStateOf(h)]_vars

(***************************************************************************)
(* FREE_ALL beside SM NOTIFY (SpecFreeAll): the threads of the             *)
(* notification section also serve FREE_ALL, and a client thread has a     *)
(* sleeping lock that the server grants.                                   *)
(***************************************************************************)
\* The positions of a thread inside nlm_do_free_all().
FaPcs == {"fa_none", "fa_found", "fa_purged"}

\* nlm_do_free_all() up to the return of nlm_host_find(): without a host
\* there is nothing to do.
FreeAllFind(p, c, state) ==
    /\ ~crashed /\ pc[p] = "idle"
    /\ LET f == nlm_host_find(RegR, c.netid, c.addr) IN
        IF f.host = NULL
        THEN /\ pc' = [pc EXCEPT ![p] = "fa_none"]
             /\ UNCHANGED <<g, nh, loc, crashed>>
        ELSE /\ f.R.nh[f.host].refs \in 1..MaxRefs
             /\ Commit(f.R)
             /\ pc' = [pc EXCEPT ![p] = "fa_found"]
             /\ loc' = [loc EXCEPT ![p] =
                    [NoLoc EXCEPT !.host = f.host, !.state = state]]
    /\ UNCHANGED <<svcVars, sysidVars, now, flk, gc>>

\* A faulty nlm_do_free_all(): it cleans the client side up as well, as
\* nlm_do_notify1() does.
FreeAllServer_client(p) ==
    /\ ~crashed /\ pc[p] = "fa_found"
    /\ ~nh_lock_held(loc[p].host)
    /\ LET h == loc[p].host IN
        /\ nh' = [nh EXCEPT ![h].state = loc[p].state,
                            ![h].flags = @ \cup {NLM_NH_RECLAIM}]
        /\ flk' = [flk EXCEPT !.remote = IF nh[h].vhold THEN @ \ {nh[h].sysid} ELSE @]
    /\ pc' = [pc EXCEPT ![p] = "fa_purged"]
    /\ UNCHANGED <<svcVars, sysidVars, g, now, loc, gc, crashed>>

\* nlm_do_free_all(): nlm_host_notify_server(host, argp->state), and nothing
\* for the client side.
FreeAllServer(p) ==
    /\ ~crashed /\ pc[p] = "fa_found"
    /\ ~nh_lock_held(loc[p].host)
    /\ LET h == loc[p].host IN
        /\ nh' = [nh EXCEPT ![h].state = IF loc[p].state # 0 THEN loc[p].state ELSE @]
        /\ flk' = [flk EXCEPT !.remote = IF nh[h].vhold THEN @ \ {nh[h].sysid} ELSE @]
    /\ pc' = [pc EXCEPT ![p] = "fa_purged"]
    /\ UNCHANGED <<svcVars, sysidVars, g, now, loc, gc, crashed>>

\* nlm_do_free_all(): nlm_host_release(g, host), or the return without a host.
FreeAllRelease(p) ==
    /\ ~crashed /\ pc[p] \in {"fa_purged", "fa_none"}
    /\ IF pc[p] = "fa_none" THEN UNCHANGED <<g, nh, crashed>>
       ELSE Commit(nlm_host_release(RegR, loc[p].host, now))
    /\ pc' = [pc EXCEPT ![p] = "idle"]
    /\ loc' = [loc EXCEPT ![p] = NoLoc]
    /\ UNCHANGED <<svcVars, sysidVars, now, flk, gc>>

\* The client's sleeping lock, and the server's answers to it.
FaSlock == CHOOSE e \in Slocks : \A o \in Slocks : e <= o
FaLock == CHOOSE l \in SlLocks : Len(l.fh) = 1
FaHost == CHOOSE h \in SlHosts : \A o \in SlHosts : h <= o

\* The states FREE_ALL carries: none, and the one SM NOTIFY carries.
FaStates == {0} \cup NsmStates

FaFreeAllFind == \E p \in Handlers, c \in RcCallers, state \in FaStates :
    FreeAllFind(p, c, state) /\ UNCHANGED RegOthers
FaFreeAllServer == \E p \in Procs : FreeAllServer(p) /\ UNCHANGED RegOthers
FaFreeAllRelease == \E p \in Procs : FreeAllRelease(p) /\ UNCHANGED RegOthers
FaSlRegister == SlockRegister(FaSlock, FaHost, FaLock) /\ UNCHANGED SlOthers
FaSlGrant == SlockGrant(FaHost, FaLock) /\ UNCHANGED SlOthers

FaNext ==
    \/ RcFindCreateLookup
    \/ CrFindCreateAlloc
    \/ CrFindCreateInsert
    \/ CrFindCreateDiscard
    \/ CrHostRelease
    \/ RcNotify1Find
    \/ RcNotify1Server
    \/ RcNotifyClientLock
    \/ RcNotifyClientStore
    \/ RcNotifyClientSpawn
    \/ RcReclaimerClear
    \/ RcReclaimerRelease
    \/ FaFreeAllFind
    \/ FaFreeAllServer
    \/ FaFreeAllRelease
    \/ FaSlRegister
    \/ FaSlGrant

SpecFreeAll == Init /\ [][FaNext]_vars

\* Thread p takes a step of nlm_do_free_all().
FaStep(p) == pc'[p] # pc[p] /\ (pc[p] \in FaPcs \/ pc'[p] \in FaPcs)

\* The client side: the RECLAIM flags, the reclaimer threads, the client's
\* sleeping locks and the locks it holds at the servers.
FaClientSide ==
    <<[h \in HostRecs |-> NLM_NH_RECLAIM \in nh[h].flags], recl, slockVars,
      flk.client>>

\* C30: FREE_ALL leaves the client side as it is: no step of it sets
\* NLM_NH_RECLAIM, starts a reclaimer or changes a client sleeping lock; for
\* a host that is not known it changes nothing at all; and a reclaim is
\* started only by a thread that serves an SM NOTIFY.
C30_FreeAllServerSideOnly ==
    /\ [][\A p \in Procs : FaStep(p) =>
            /\ FaClientSide' = FaClientSide
            /\ ("fa_none" \in {pc[p], pc'[p]}) =>
                   UNCHANGED <<g, nh, flk, loc, now, gc, svcVars, sysidVars,
                               slockVars, srvVars, crashed>>]_vars
    /\ [][(\E h \in HostRecs :
              \/ recl'[h].run > recl[h].run
              \/ NLM_NH_RECLAIM \in nh'[h].flags \ nh[h].flags) =>
          (\E p \in Procs : /\ pc[p] \in {"n1_client", "nc_spawn"}
                            /\ pc'[p] # pc[p])]_vars
    /\ [][\A p \in Procs :
            (pc'[p] \in {"n1_found", "n1_client", "nc_store", "nc_spawn"}
                /\ pc'[p] # pc[p]) => pc[p] \notin FaPcs]_vars

\* A FREE_ALL with a state has purged the server side of a known host while
\* the client has a sleeping lock and a reclaimer of that host runs.
C30_Witness ==
    \E p \in Procs :
        /\ pc[p] = "fa_purged"
        /\ loc[p].state # 0 /\ nh[loc[p].host].state = loc[p].state
        /\ recl[loc[p].host].run > 0
        /\ nsl[FaSlock].live

(***************************************************************************)
(* The reclaimer's bookkeeping (SpecReclaimDone): the threads of the       *)
(* notification section, which also wait in nlm_host_wait_grace() for a    *)
(* host they hold, with the reclaimers and the notifying threads           *)
(* scheduled fairly.                                                       *)
(***************************************************************************)
\* nlm_host_wait_grace(): nh_lock is taken and the thread sleeps on
\* nh_recl_cv before it looks at the flag (do ... while).
WaitGraceEnter(p) ==
    /\ ~crashed /\ pc[p] = "held"
    /\ ~nh_lock_held(loc[p].host)
    /\ pc' = [pc EXCEPT ![p] = "wg_sleep"]
    /\ UNCHANGED <<svcVars, sysidVars, g, nh, now, flk, loc, gc, crashed>>

\* cv_timedwait_sig() returns: -1 after retrans_tmo, and 0 for a signal, in
\* which case the function returns EINTR.
WaitGraceReturn(p, rc) ==
    /\ ~crashed /\ pc[p] = "wg_sleep"
    /\ pc' = [pc EXCEPT ![p] = IF rc = 0 THEN "held" ELSE "wg_woken"]
    /\ UNCHANGED <<svcVars, sysidVars, g, nh, now, flk, loc, gc, crashed>>

\* ... while (hostp->nh_flags & NLM_NH_RECLAIM), under nh_lock.
WaitGraceTest(p) ==
    /\ ~crashed /\ pc[p] = "wg_woken"
    /\ ~nh_lock_held(loc[p].host)
    /\ pc' = [pc EXCEPT ![p] =
                IF NLM_NH_RECLAIM \in nh[loc[p].host].flags THEN "wg_sleep"
                ELSE "held"]
    /\ UNCHANGED <<svcVars, sysidVars, g, nh, now, flk, loc, gc, crashed>>

RdWaitGraceEnter == \E p \in Procs : WaitGraceEnter(p) /\ UNCHANGED RegOthers
RdWaitGraceReturn == \E p \in Procs, rc \in {-1, 0} :
    WaitGraceReturn(p, rc) /\ UNCHANGED RegOthers
RdWaitGraceTest == \E p \in Procs : WaitGraceTest(p) /\ UNCHANGED RegOthers

RdNext ==
    \/ RcFindCreateLookup
    \/ CrFindCreateAlloc
    \/ CrFindCreateInsert
    \/ CrFindCreateDiscard
    \/ CrHostRelease
    \/ RcNotify1Find
    \/ RcNotify1Server
    \/ RcNotifyClientLock
    \/ RcNotifyClientStore
    \/ RcNotifyClientSpawn
    \/ RcReclaimerClear
    \/ RcReclaimerRelease
    \/ RdWaitGraceEnter
    \/ RdWaitGraceReturn
    \/ RdWaitGraceTest

\* nlm_reclaim_client() returns, and the threads that are inside
\* nlm_host_notify_client() and nlm_reclaimer() run on.
RdFair ==
    /\ WF_vars(RcNotifyClientStore)
    /\ WF_vars(RcNotifyClientSpawn)
    /\ \A h \in HostRecs :
          /\ WF_vars(ReclaimerClear(h) /\ UNCHANGED RegOthers)
          /\ WF_vars(ReclaimerRelease(h) /\ UNCHANGED RegOthers)

SpecReclaimDone == Init /\ [][RdNext]_vars /\ RdFair

\* A reclaimer of host h exists, or is about to be created.
RdWorker(h) ==
    \/ recl[h].run + recl[h].rel > 0
    \/ \E p \in Procs : pc[p] = "nc_spawn" /\ loc[p].host = h

\* Every reclaimer clears the flag, and none that has cleared it stays for
\* ever without releasing the host.
ReclaimerFinishes ==
    \A h \in HostRecs :
        /\ (recl[h].run > 0) ~> (recl[h].run = 0)
        /\ \/ []<>(recl[h].rel = 0)
           \/ []<><<ReclaimerRelease(h) /\ UNCHANGED RegOthers>>_vars

\* The step that clears the flag wakes every thread that sleeps in
\* nlm_host_wait_grace() for the host.
ReclaimerWakesWaiters ==
    [][\A h \in HostRecs : recl'[h].rel > recl[h].rel =>
          /\ NLM_NH_RECLAIM \notin nh'[h].flags
          /\ \A p \in Procs :
                (pc[p] = "wg_sleep" /\ loc[p].host = h) => pc'[p] = "wg_woken"]_vars

\* C31: a reclaim that was started finishes its bookkeeping: the reclaimer
\* clears NLM_NH_RECLAIM, wakes the threads in nlm_host_wait_grace() and
\* exits having dropped one reference; the call that starts it takes exactly
\* one reference, so that the host, referenced while the reclaimer exists,
\* is not on the idle list and cannot be destroyed.
C31_ReclaimBookkeeping ==
    /\ ReclaimerFinishes
    /\ ReclaimerWakesWaiters
    /\ [][\A h \in HostRecs :
            /\ (\E p \in Procs : /\ pc[p] = "nc_store" /\ loc[p].host = h
                                 /\ pc'[p] = "nc_spawn") =>
                   nh'[h].refs = nh[h].refs + 1
            /\ recl'[h].rel < recl[h].rel => nh'[h].refs = nh[h].refs - 1]_vars
    /\ [](\A h \in HostRecs : RdWorker(h) =>
            /\ nh[h].live /\ nh[h].refs >= 1
            /\ IdleCount(RegR, h) = 0)

(***************************************************************************)
(* nlm_host_destroy() and the host's vholds (SpecStop).                    *)
(***************************************************************************)
\* The hosts that the step destroys: nlm_gc(), the idle list loop of
\* nlm_svc_stopping(), or nlm_host_findcreate() with its surplus record.
HostsDestroyed == {h \in HostRecs : nh[h].live /\ ~nh'[h].live}

\* C32: whenever nlm_host_destroy() runs on a host, nh_vholds_list of the
\* host is empty (and with it no sleeping request, which only a vhold
\* carries, is left): ASSERT(TAILQ_EMPTY(&hostp->nh_vholds_list)) holds, also
\* when the service is stopped while handlers hold the host.
C32_DestroyedWithoutVholds ==
    [][\A h \in HostsDestroyed : ~nh[h].vhold /\ nh[h].nv_refcnt = 0]_vars

\* The surplus record of nlm_host_findcreate() never has a vhold.
SurplusWithoutVholds ==
    [][\A p \in Procs : pc[p] = "fc_discard" =>
          \A h \in HostsDestroyed : h = loc[p].newhost => ~nh[h].vhold]_vars

(***************************************************************************)
(* nlm_block() of several handlers on one vhold (SpecSlreq): each          *)
(* registers its sleeping request in the two critical sections of          *)
(* nlm_slreq_register(), waits in F_SETLKW and unregisters, while CANCEL   *)
(* requests and nlm_host_notify_server() take requests off the list.       *)
(***************************************************************************)
\* The locks of the requests: one range, two owners, shared or exclusive.
SqLocks == {nl \in CaLocks : nl.l_offset = 0 /\ nl.l_len = 1}

\* nlm_slreq_register(), first critical section: whether it goes to out with
\* ret == -1.
nlm_slreq_register_found(list, flp) == nlm_slreq_find_locked(list, flp) # 0

\* nlm_slreq_register(), second critical section: the list is searched
\* again, and the new request is put at the tail if there still is none.
nlm_slreq_register_insert(list, flp) ==
    IF nlm_slreq_find_locked(list, flp) = 0
    THEN [list |-> Append(list, flp), ret |-> 0]
    ELSE [list |-> list, ret |-> -1]

\* nlm_slreq_unregister(): the list without the request of flp, and 0, or
\* the list as it is, and -1.
nlm_slreq_unregister(list, flp) ==
    LET k == nlm_slreq_find_locked(list, flp) IN
    IF k = 0 THEN [list |-> list, ret |-> -1]
    ELSE [list |-> CaRemove(list, k), ret |-> 0]

\* nlm_block() up to the first mutex_exit() of nlm_slreq_register().
SqBlock(p, nl, exclusive) ==
    /\ sq[p].pc = "idle"
    /\ LET flp == nlm_init_flock(nl, exclusive) IN
        sq' = [sq EXCEPT ![p] =
                 IF nlm_slreq_register_found(ca_slreqs, flp)
                 THEN [pc |-> "dup", flp |-> flp, ret |-> -1]
                 ELSE [pc |-> "alloc", flp |-> flp, ret |-> 0]]
    /\ UNCHANGED ca_slreqs

\* ... kmem_zalloc(), and the second critical section.
SqRegister(p) ==
    /\ sq[p].pc = "alloc"
    /\ LET r == nlm_slreq_register_insert(ca_slreqs, sq[p].flp) IN
        /\ ca_slreqs' = r.list
        /\ sq' = [sq EXCEPT ![p].ret = r.ret,
                            ![p].pc = IF r.ret < 0 THEN "dup" ELSE "setlkw"]

\* nlm_block(): the request is registered by someone else, the handler
\* returns.
SqReturn(p) ==
    /\ sq[p].pc = "dup"
    /\ sq' = [sq EXCEPT ![p] = NoSq]
    /\ UNCHANGED ca_slreqs

\* nlm_block(): VOP_FRLOCK(F_SETLKW) returns.
SqSetlkwReturn(p) ==
    /\ sq[p].pc = "setlkw"
    /\ sq' = [sq EXCEPT ![p].pc = "unreg"]
    /\ UNCHANGED ca_slreqs

\* nlm_block(): nlm_slreq_unregister(host, nvp, flp), its result not looked
\* at.
SqUnregister(p) ==
    /\ sq[p].pc = "unreg"
    /\ ca_slreqs' = nlm_slreq_unregister(ca_slreqs, sq[p].flp).list
    /\ sq' = [sq EXCEPT ![p] = NoSq]

\* nlm_do_cancel(): nlm_slreq_unregister() of the request the CANCEL names.
SqCancel(nl, exclusive) ==
    /\ LET r == nlm_slreq_unregister(ca_slreqs, nlm_init_flock(nl, exclusive)) IN
        /\ r.ret = 0
        /\ ca_slreqs' = r.list
    /\ UNCHANGED sq

\* nlm_host_notify_server(): every request is taken off nv_slreqs.
SqNotifyServer ==
    /\ ca_slreqs # <<>>
    /\ ca_slreqs' = <<>>
    /\ UNCHANGED sq

SqOthers == <<sysidVars, syVars, slockVars, regVars, srvVars, nsmVars, loVars,
              moVars, entVars, ca_res, nwVars,
             vpaVars,
             staVars>>

SqDoBlock == \E p \in Procs, nl \in SqLocks, exclusive \in BOOLEAN :
    SqBlock(p, nl, exclusive) /\ UNCHANGED SqOthers
SqDoRegister == \E p \in Procs : SqRegister(p) /\ UNCHANGED SqOthers
SqDoReturn == \E p \in Procs : SqReturn(p) /\ UNCHANGED SqOthers
SqDoSetlkwReturn == \E p \in Procs : SqSetlkwReturn(p) /\ UNCHANGED SqOthers
SqDoUnregister == \E p \in Procs : SqUnregister(p) /\ UNCHANGED SqOthers
SqDoCancel == \E nl \in SqLocks, exclusive \in BOOLEAN :
    SqCancel(nl, exclusive) /\ UNCHANGED SqOthers
SqDoNotifyServer == SqNotifyServer /\ UNCHANGED SqOthers

SqNext ==
    \/ SqDoBlock
    \/ SqDoRegister
    \/ SqDoReturn
    \/ SqDoSetlkwReturn
    \/ SqDoUnregister
    \/ SqDoCancel
    \/ SqDoNotifyServer

SpecSlreq == Init /\ [][SqNext]_vars

\* The handlers that wait in F_SETLKW for the request flp.
SqWaiting(flp) == {p \in Procs : sq[p].pc = "setlkw" /\ sq[p].flp = flp}

\* nv_slreqs never holds two requests with equal l_start, l_len, l_pid and
\* l_type.
SlreqsDistinct ==
    \A i, j \in 1..Len(ca_slreqs) :
        nlm_slreq_find_locked(<<ca_slreqs[i]>>, ca_slreqs[j]) # 0 => i = j

\* A handler that is told its request is a duplicate changes nothing, and
\* a request with its key is or was on the list when it looked; a handler
\* that registers on an empty list and unregisters leaves it empty.
SlreqDuplicateIgnored ==
    [][\A p \in Procs :
        /\ (sq'[p].pc = "dup" /\ sq[p].pc # "dup") => ca_slreqs' = ca_slreqs
        /\ (sq[p].pc = "alloc" /\ sq'[p].pc = "dup") =>
               nlm_slreq_find_locked(ca_slreqs, sq[p].flp) # 0
        /\ (sq[p].pc = "alloc" /\ sq'[p].pc = "setlkw" /\ ca_slreqs = <<>>) =>
               ca_slreqs' = <<sq[p].flp>>
        /\ (sq[p].pc = "unreg" /\ ca_slreqs = <<sq[p].flp>>) =>
               (sq'[p].pc = "idle" => ca_slreqs' = <<>>)]_vars

\* C33: nv_slreqs never holds two requests equal on l_start, l_len, l_pid and
\* l_type; of the handlers that register a request with the same key one is
\* told 0 and the others -1, so that at most one handler waits in F_SETLKW
\* for a key, and a duplicate does nothing; a register and an unregister on
\* an empty list leave it empty.
C33_OneWaiterPerKey ==
    /\ [](SlreqsDistinct)
    /\ [](\A p \in Procs : Cardinality(SqWaiting(sq[p].flp)) <= 1)
    /\ SlreqDuplicateIgnored


(***************************************************************************)
(* Host creation against shutdown: nlm_host_findcreate() tests run_status  *)
(* in its first critical section only.                                     *)
(***************************************************************************)
\* The tree and the hash lose hosts only, once run_status has left UP.
HostSetShrinks ==
    [][g.run_status # NLM_ST_UP =>
          /\ g'.hosts_tree \subseteq g.hosts_tree
          /\ \A s \in Sysids : g'.hosts_hash[s] \in {g.hosts_hash[s], NULL}]_vars

\* The tree and the hash are empty when run_status becomes DOWN.
HostSetEmptyAtDown ==
    [][g.run_status # NLM_ST_DOWN /\ g'.run_status = NLM_ST_DOWN =>
          /\ g'.hosts_tree = {}
          /\ \A s \in Sysids : g'.hosts_hash[s] = NULL]_vars

\* C34: once run_status has left UP no nlm_host_findcreate() call, one that
\* passed its run_status test before the change included, inserts a host
\* into the host tree or the sysid hash: the host set only shrinks during
\* shutdown, and it is empty when run_status becomes DOWN.
C34_NoHostWhileStopping ==
    /\ HostSetShrinks
    /\ HostSetEmptyAtDown


(***************************************************************************)
(* nlm_vp_active() beside the handlers and the vhold collector.  It walks  *)
(* the hosts under g->lock and calls nlm_vhold_find_locked() without        *)
(* nh_lock, so its nv_refcnt++ is a read and a write that the steps of the  *)
(* other threads may come between.                                         *)
(***************************************************************************)
\* The hosts of the tree that have a vhold for vp.
VpaHolders(vp) == {h \in VhHosts : vh[h][vp].live}

\* nlm_vp_active(), the walk of the tree: the first host with a vhold for
\* vp, NULL if there is none, and the read of its nv_refcnt.
VpActiveFind(vp) ==
    /\ vpa.pc = "idle" /\ vpa.n < MaxVpQueries
    /\ LET H == VpaHolders(vp) IN
        IF H = {}
        THEN vpa' = [vpa EXCEPT !.n = @ + 1, !.vp = NULL, !.host = NULL]
        ELSE LET h == CHOOSE k \in H : \A j \in H : k <= j IN
             vpa' = [vpa EXCEPT !.pc = "store", !.n = @ + 1, !.vp = vp,
                                !.host = h, !.old = vh[h][vp].nv_refcnt]
    /\ UNCHANGED vhVars

\* nlm_vhold_find_locked() called by nlm_vp_active(): the write of
\* nv_refcnt++; active = 1 and the return.
VpActiveStore ==
    /\ vpa.pc = "store"
    /\ IF vh[vpa.host][vpa.vp].live
       THEN /\ vh' = [vh EXCEPT ![vpa.host][vpa.vp].nv_refcnt = vpa.old + 1]
            /\ vpa' = [vpa EXCEPT !.pc = "idle"]
       ELSE /\ vpa' = [vpa EXCEPT !.pc = "idle", !.freed = TRUE]
            /\ UNCHANGED vh
    /\ UNCHANGED <<v_count, vlk, vpc, vloc>>

VpaOthers == <<sysidVars, syVars, slockVars, regVars, svVars, nsmVars, loVars,
               moVars, entVars, caVars, nwVars, sqVars,
              staVars>>

\* The file of the requests and of the queries, and the file handles of the
\* requests: the one of that file and one that names no vnode.
VpaVnode == CHOOSE vp \in Vnodes : \A k \in Vnodes : vp <= k
VpaFhs == {fh \in Fhs : fh <= VpaVnode}

VpaFhToVp == \E p \in Procs, h \in VhHosts, fh \in VpaFhs :
                 VhFhToVp(p, h, fh) /\ UNCHANGED VhOthers
VpaGetFind == \E p \in Procs : VhGetFind(p) /\ UNCHANGED VhOthers
VpaGetInsert == \E p \in Procs : VhGetInsert(p) /\ UNCHANGED VhOthers
VpaVnRele == \E p \in Procs : VhVnRele(p) /\ UNCHANGED VhOthers
VpaLockOp == \E p \in Procs, set \in BOOLEAN :
                 VhLockOp(p, set) /\ UNCHANGED VhOthers
VpaRelease == \E p \in Procs : VhRelease(p) /\ UNCHANGED VhOthers
VpaGc == \E h \in VhHosts : VhGc(h) /\ UNCHANGED VhOthers
VpaDoFind == VpActiveFind(VpaVnode) /\ UNCHANGED VpaOthers
VpaDoStore == VpActiveStore /\ UNCHANGED VpaOthers

VpaNext ==
    \/ VpaFhToVp
    \/ VpaGetFind
    \/ VpaGetInsert
    \/ VpaVnRele
    \/ VpaLockOp
    \/ VpaRelease
    \/ VpaGc
    \/ VpaDoFind
    \/ VpaDoStore

SpecVpActive == Init /\ [][VpaNext]_vars

\* Every nlm_vhold_get() has been matched by its nlm_vhold_release(), and no
\* query is under way.
VhAllReleased == vpa.pc = "idle" /\ \A p \in Procs : vpc[p] = "idle"

\* The handlers that have a reference of the vhold of vp at host h.
VhReferrers(h, vp) ==
    {p \in Procs : /\ vloc[p].host = h /\ vloc[p].vp = vp
                   /\ vpc[p] \in {"vn_rele", "got"}}

\* Without a query nv_refcnt counts the handlers that have the vhold.
RefcntCountsHandlers ==
    vpa.n = 0 =>
        \A h \in VhHosts, vp \in Vnodes :
            vh[h][vp].live =>
                vh[h][vp].nv_refcnt = Cardinality(VhReferrers(h, vp))

\* C35: when every nlm_vhold_get() has been matched by nlm_vhold_release(),
\* after any number of nlm_vp_active() queries and handler runs, the
\* nv_refcnt of every vhold is 0, so a vhold without locks and shares is one
\* the collector destroys.
C35_RefcntZeroWhenReleased ==
    VhAllReleased =>
        \A h \in VhHosts, vp \in Vnodes :
            vh[h][vp].live =>
                /\ vh[h][vp].nv_refcnt = 0
                /\ (<<h, vp>> \notin vlk /\ <<h, vp>> \notin vshr
                        => vp \in VhStale(h))


(***************************************************************************)
(* The order of the idle list: one handler that finds, creates, locks and  *)
(* releases hosts, the garbage collector, and a clock that runs on while    *)
(* the collector works with the time it sampled.                           *)
(***************************************************************************)
\* The clock.
LruTick ==
    /\ ~crashed /\ now < MaxLruTime
    /\ now' = now + 1
    /\ UNCHANGED <<svcVars, sysidVars, g, nh, flk, pc, loc, gc, crashed>>

LruDoTick == LruTick /\ UNCHANGED RegOthers

LruNext ==
    \/ RpHostFind
    \/ RpFindCreateLookup
    \/ RpFindCreateAlloc
    \/ RpFindCreateInsert
    \/ RpVholdGet
    \/ RpVholdRelease
    \/ RpHostRelease
    \/ LruDoTick
    \/ RpGcWake
    \/ RpGcScan
    \/ RpGcExamine
    \/ RpGcRecheck
    \/ RpGcDestroy

SpecLru == Init /\ [][LruNext]_vars

\* nh_idle_timeout does not decrease from the head of the list to its tail.
LruOrdered ==
    LET L == IdleList(RegR) IN
    \A i \in 1..Len(L), j \in 1..Len(L) :
        i < j => nh[L[i]].idle_timeout <= nh[L[j]].idle_timeout

\* The hosts of the idle list whose timeout is over for the collector.
LruExpired == {h \in HostRecs : /\ IdleCount(RegR, h) > 0
                                /\ nh[h].idle_timeout <= gc.now}

\* The collector leaves its loop at a head whose timeout lies in the future.
GcEarlyExit ==
    /\ gc.pc = "scan" /\ gc'.pc = "wait"
    /\ g.idle_first # NULL

\* C36: the idle list is ordered by non-decreasing nh_idle_timeout from head
\* to tail after any interleaving of nlm_host_release() (current time plus
\* idle period) and the collector's renewal of busy hosts (the time sampled
\* at the start of the cycle plus idle period); so the collector's early
\* exit at the first host whose timeout lies in the future skips no host
\* whose timeout is over.
C36_IdleListOrdered ==
    /\ [](~crashed => LruOrdered)
    /\ [][GcEarlyExit => LruExpired = {}]_vars


(***************************************************************************)
(* nh_refs against the references that are out (SpecReclaim).              *)
(***************************************************************************)
\* The references of host h that are out: one for each thread that a find
\* function returned the host to, or that made the record, and has not
\* released it, and one for each reclaimer, from the nh_refs++ that is made
\* for it to its nlm_host_release().
RefsOutstanding(h) ==
    Cardinality({p \in Procs : loc[p].host = h /\ pc[p] # "idle"})
    + Cardinality({p \in Procs : loc[p].newhost = h /\ pc[p] # "idle"})
    + Cardinality({p \in Procs : loc[p].host = h /\ pc[p] = "nc_spawn"})
    + recl[h].run + recl[h].rel

\* C37: nh_refs equals the number of references that are out (the returns of
\* the find functions not yet released, and one per reclaimer): no increment
\* or decrement is lost when nlm_host_notify_client() raises nh_refs under
\* nh_lock while another thread finds or releases the host under g->lock,
\* and no release takes the count below zero.
C37_RefsCountReferences ==
    \A h \in HostRecs :
        nh[h].live => /\ nh[h].refs = RefsOutstanding(h)
                      /\ nh[h].refs >= 0


(***************************************************************************)
(* The vholds the collector destroys against the threads that use them     *)
(* (SpecNotify).                                                           *)
(***************************************************************************)
\* The vholds of host h that the step destroys.
VholdsDestroyed(h) == {vp \in Vnodes : vh[h][vp].live /\ ~vh'[h][vp].live}

\* The vhold nlm_host_notify_server() has taken from the list and works on
\* without nh_lock, or whose nv_link it is about to follow.
NwWalked == IF nw.pc \in {"clean", "next"} THEN {nw.nvp} ELSE {}

\* No vhold is destroyed while a handler has a reference of it.
VholdKeptWhileReferenced ==
    [][\A h \in VhHosts : \A vp \in VholdsDestroyed(h) :
          vh[h][vp].nv_refcnt = 0]_vars

\* C38: no vhold is destroyed while another thread still uses it:
\* nlm_host_gc_vholds() destroys neither a vhold that a concurrent
\* nlm_host_notify_server() is walking nor one that a handler holds with
\* nv_refcnt > 0.
C38_VholdNotDestroyedInUse ==
    /\ [][VholdsDestroyed(NwHost) \cap NwWalked = {}]_vars
    /\ VholdKeptWhileReferenced


(***************************************************************************)
(* The state number of LOCK requests: the handlers of SpecLock, given       *)
(* requests that carry any state number, 0 included.                       *)
(***************************************************************************)
LsLockArgs == {[a EXCEPT !.state = s] : a \in LockArgs, s \in NwStates}

LsStart == \E p \in Handlers, a \in LsLockArgs \cup ShareArgs :
               SvcStart(p, a) /\ UNCHANGED LkOthers

LsNext ==
    \/ LsStart
    \/ LkNotifyServer
    \/ LkFhToVp
    \/ LkVholdFind
    \/ LkVholdInsert
    \/ LkVnRele
    \/ LkSetlk
    \/ LkShrlock
    \/ LkReply
    \/ LkMonFlag
    \/ LkMonRpc
    \/ LkSlreqRegister
    \/ LkSetlkwReturn
    \/ LkSlreqUnregister
    \/ LkGrant
    \/ LkRelease
    \/ LkReturn
    \/ LkLocalLock
    \/ LkLocalUnlock
    \/ LkGc
    \/ DoTick

SpecLockState == Init /\ [][LsNext]_vars

\* The handler's step over the state test of nlm_do_lock().
LsChecked(p) == hpc[p] = "notify" /\ hpc'[p] = "fh"

\* The step takes locks, shares or sleeping requests from host h.
LsPurged(h) ==
    \E k \in (vlk \ vlk') \cup (vshr \ vshr') \cup (slreqs \ slreqs') : k[1] = h

\* The LOCK handler purges only when the state of the request is not the
\* state recorded for the host.
PurgeOnlyOnStateChange ==
    [][\A p \in Procs :
          LsChecked(p) /\ LsPurged(harg[p].host) =>
              lk_host[harg[p].host].state # harg[p].state]_vars

\* C39: the LOCK handler purges the host's locks, shares and sleeping
\* requests only when the state number of the request differs from the
\* state recorded for the host, and after the test the recorded state is
\* the state of the request, so that a second LOCK of the host with the
\* same state number, whatever the number, removes nothing that earlier
\* requests were granted.
C39_SameStateNeverPurges ==
    /\ PurgeOnlyOnStateChange
    /\ [][\A p \in Procs :
            LsChecked(p) => lk_host'[harg[p].host].state = harg[p].state]_vars


(***************************************************************************)
(* nlm_svc_starting(): the steps of the start, each of which may fail, the  *)
(* shutdown_lm path into nlm_svc_stopping(), the garbage collector, and a   *)
(* thread that looks hosts up and creates them once run_status is UP.       *)
(***************************************************************************)
\* Before nlm_svc_starting(): run_status is STARTING, there is no GC thread
\* and no NSM handle.
StartRegInit ==
    /\ g = [run_status |-> NLM_ST_STARTING, hosts_tree |-> {},
            hosts_hash |-> [s \in Sysids |-> NULL],
            idle_first |-> NULL, idle_last |-> HEAD, gc_thread |-> FALSE]
    /\ nh = [h \in HostRecs |-> NoHost]
    /\ now = 0
    /\ flk = [remote |-> {}, client |-> {}]
    /\ pc = [p \in Procs |-> "idle"]
    /\ loc = [p \in Procs |-> NoLoc]
    /\ gc = [pc |-> "none", host |-> NULL, now |-> 0, has_locks |-> FALSE,
             unmon |-> NoUnmon]
    /\ st = [pc |-> "up", host |-> NULL, busy |-> FALSE]
    /\ recl = [h \in HostRecs |-> [run |-> 0, rel |-> 0]]
    /\ crashed = FALSE

StartInit ==
    /\ nlm_sysid_bmap = SysidInitBmap
    /\ nlm_sysid_nidx = SysidInitNidx
    /\ sy_out = [s \in 0..LM_SYSID_MAX |-> 0]
    /\ sy_ret = LM_NOSYSID
    /\ SlockInit
    /\ StartRegInit
    /\ VhInit /\ SvInit /\ NsmInit /\ LoInit /\ MoInit /\ EntInit /\ CaInit
    /\ NwInit /\ SqInit /\ VpaInit
    /\ sta = [pc |-> "nsm_init", error |-> 0, ret |-> 0, failed |-> FALSE,
              nsm |-> FALSE, nsm_fini |-> 0]

StaFrame == <<recl, sysidVars, nh, now, flk, pc, loc, crashed>>

\* nlm_nsm_init(): on an error it frees what it allocated itself, and
\* nlm_svc_starting() sets run_status to DOWN and returns the error.
StaNsmInit(error) ==
    /\ sta.pc = "nsm_init"
    /\ IF error # 0
       THEN /\ g' = [g EXCEPT !.run_status = NLM_ST_DOWN]
            /\ sta' = [sta EXCEPT !.pc = "returned", !.error = error,
                                  !.ret = error, !.failed = TRUE]
       ELSE /\ g' = g
            /\ sta' = [sta EXCEPT !.pc = "gc_create", !.nsm = TRUE]
    /\ UNCHANGED <<StaFrame, gc, st>>

\* error = EIO; g->nlm_gc_thread = zthread_create(..., nlm_gc, ...)
StaGcCreate ==
    /\ sta.pc = "gc_create"
    /\ sta' = [sta EXCEPT !.pc = "simu_crash", !.error = EIO]
    /\ g' = [g EXCEPT !.gc_thread = TRUE]
    /\ gc' = [gc EXCEPT !.pc = "wait"]
    /\ UNCHANGED <<StaFrame, st>>

\* nlm_nsm_simu_crash()
StaSimuCrash(ok) ==
    /\ sta.pc = "simu_crash"
    /\ sta' = IF ok THEN [sta EXCEPT !.pc = "stat"]
              ELSE [sta EXCEPT !.pc = "shutdown_lm", !.failed = TRUE]
    /\ UNCHANGED <<StaFrame, g, gc, st>>

\* nlm_nsm_stat(), and on success the grace threshold and
\* run_status = NLM_ST_UP.
StaStat(ok) ==
    /\ sta.pc = "stat"
    /\ IF ok
       THEN /\ g' = [g EXCEPT !.run_status = NLM_ST_UP]
            /\ sta' = [sta EXCEPT !.pc = "add_ep"]
       ELSE /\ g' = g
            /\ sta' = [sta EXCEPT !.pc = "shutdown_lm", !.failed = TRUE]
    /\ UNCHANGED <<StaFrame, gc, st>>

\* nlm_svc_add_ep(): return (0) on success.
StaAddEp(error) ==
    /\ sta.pc = "add_ep"
    /\ sta' = IF error = 0
              THEN [sta EXCEPT !.pc = "returned", !.error = 0, !.ret = 0]
              ELSE [sta EXCEPT !.pc = "shutdown_lm", !.error = error,
                               !.failed = TRUE]
    /\ UNCHANGED <<StaFrame, g, gc, st>>

\* shutdown_lm: run_status = NLM_ST_STOPPING under g->lock, and the call of
\* nlm_svc_stopping().
StaShutdownLm ==
    /\ sta.pc = "shutdown_lm"
    /\ g' = [g EXCEPT !.run_status = NLM_ST_STOPPING]
    /\ st' = [st EXCEPT !.pc = "wait_gc"]
    /\ sta' = [sta EXCEPT !.pc = "stopping"]
    /\ UNCHANGED <<StaFrame, gc>>

\* The outer loop of nlm_svc_stopping(); when the tree is empty
\* nlm_nsm_unmon_all() and nlm_nsm_fini() come before run_status = DOWN.
StaStopSweep ==
    /\ StopSweep
    /\ sta' = IF st'.pc = "down"
              THEN [sta EXCEPT !.nsm = FALSE, !.nsm_fini = @ + 1]
              ELSE sta

\* nlm_svc_stopping() has returned: return (error).
StaReturn ==
    /\ sta.pc = "stopping" /\ st.pc = "down"
    /\ sta' = [sta EXCEPT !.pc = "returned", !.ret = sta.error]
    /\ UNCHANGED regVars

StaOthers == <<syVars, slockVars, srvVars, nsmVars, loVars, moVars, entVars,
               caVars, nwVars, sqVars, vpaVars>>

StaDoNsmInit == \E error \in {0, ENOENT} : StaNsmInit(error) /\ UNCHANGED StaOthers
StaDoGcCreate == StaGcCreate /\ UNCHANGED StaOthers
StaDoSimuCrash == \E ok \in BOOLEAN : StaSimuCrash(ok) /\ UNCHANGED StaOthers
StaDoStat == \E ok \in BOOLEAN : StaStat(ok) /\ UNCHANGED StaOthers
StaDoAddEp == \E error \in {0, EIO} : StaAddEp(error) /\ UNCHANGED StaOthers
StaDoShutdownLm == StaShutdownLm /\ UNCHANGED StaOthers
StaDoStopSweep == StaStopSweep /\ UNCHANGED StaOthers
StaDoReturn == StaReturn /\ UNCHANGED <<sysidVars, StaOthers>>

StaNext ==
    \/ StaDoNsmInit
    \/ StaDoGcCreate
    \/ StaDoSimuCrash
    \/ StaDoStat
    \/ StaDoAddEp
    \/ StaDoShutdownLm
    \/ StaDoReturn
    \/ ShFindCreateLookup
    \/ RpFindCreateAlloc
    \/ RpFindCreateInsert
    \/ RpHostRelease
    \/ RpTick
    \/ RpGcWake
    \/ RpGcScan
    \/ RpGcExamine
    \/ RpGcRecheck
    \/ RpGcDestroy
    \/ DoStopWaitGc
    \/ StaDoStopSweep
    \/ DoStopDrain
    \/ DoStopUnregTree
    \/ DoStopUnregHash
    \/ DoStopUnregIdle
    \/ DoStopDestroy

SpecStart == StartInit /\ [][StaNext]_vars

\* nlm_svc_starting() has returned after one of its steps failed.
StaFailedReturn == ~crashed /\ sta.pc = "returned" /\ sta.failed

\* The changes of run_status on the way of a failed start.
StaPath == {<<NLM_ST_STARTING, NLM_ST_UP>>, <<NLM_ST_STARTING, NLM_ST_STOPPING>>,
            <<NLM_ST_UP, NLM_ST_STOPPING>>, <<NLM_ST_STOPPING, NLM_ST_DOWN>>}

\* A failed start returns an error and leaves run_status DOWN, no GC thread
\* and no NSM handle, none destroyed twice.
FailedStartStopped ==
    StaFailedReturn =>
        /\ sta.ret # 0
        /\ g.run_status = NLM_ST_DOWN
        /\ ~g.gc_thread /\ gc.pc \in {"none", "exited"}
        /\ ~sta.nsm /\ sta.nsm_fini <= 1

\* A failed start leaves no host registered.
FailedStartNoHost ==
    StaFailedReturn =>
        g.hosts_tree = {} /\ \A s \in Sysids : g.hosts_hash[s] = NULL

\* C40: a failed start leaves nothing running: whichever step of
\* nlm_svc_starting() fails (NSM initialisation, SIMU_CRASH, STAT, endpoint
\* registration), the call returns an error that is not 0, run_status ends
\* as DOWN having passed only through STARTING -> (UP) -> STOPPING -> DOWN,
\* the GC thread, if it was created, has exited, the NSM handle is destroyed
\* exactly once, and no host remains registered.
C40_FailedStartLeavesNothing ==
    /\ [](FailedStartStopped)
    /\ [](StaFailedReturn => sta.nsm_fini = 1)
    /\ [](FailedStartNoHost)
    /\ [][g'.run_status # g.run_status =>
            <<g.run_status, g'.run_status>> \in StaPath]_vars

=============================================================================
